---- MODULE Spec2Model ----
(***************************************************************************)
(* Antigravity-Trading: the options replay core.                           *)
(*                                                                         *)
(*   engine/options_backtester.py   execute_leg, check_data_boundary,      *)
(*                                  OptionsBacktester.run                  *)
(*   engine/strategy_sdk.py         StrategyContext                        *)
(*   engine/cost_model.py           get_tax_rates, CostModel.calculate     *)
(*                                                                         *)
(* Units.  Candle prices are whole rupees.  Prices kept in a trade or a    *)
(* position are in paise (rupee/100), so that entry * (1 + pct/100) is an  *)
(* integer for whole percentages.  Money (P&L, costs) is in 1/100 paise;   *)
(* the tax parts, which the code computes in floating point, are computed  *)
(* in fixed point at that resolution.  A time of day is [h, m]; a date is  *)
(* the integer yyyymmdd.                                                   *)
(***************************************************************************)
EXTENDS Integers, Sequences, FiniteSets, TLC

\* ------------------------------------------------------------------ bounds
\* Lots of a leg or position: 1..MaxLots.
MaxLots == 1

\* The minutes of the trading day the inputs are drawn from: 09:20, 09:21, 15:14, 15:15.
Times == {[h |-> 9, m |-> 20], [h |-> 9, m |-> 21], [h |-> 15, m |-> 14], [h |-> 15, m |-> 15]}
\* Candle prices (rupees) the inputs are drawn from.
Prices == {70, 100, 130}
Actions == {"BUY", "SELL"}
TriggerTypes == {"hard", "close"}

\* Optional[...] = None
NoneVal == 0 - 1
\* x / 100 of the percentage arithmetic; also paise per rupee
Pct == 100
\* money units (1/100 paise) per paisa
MoneyPerPaisa == Pct

\* ----------------------------------------------------------- time of day
\* candle_time.hour > exit_h or (candle_time.hour == exit_h and candle_time.minute >= exit_m)
TimeGE(a, b) == a.h > b.h \/ (a.h = b.h /\ a.m >= b.m)
\* strike_data["timestamp"] > entry_ts, within one day
TimeGT(a, b) == a.h > b.h \/ (a.h = b.h /\ a.m > b.m)
\* (timestamp.dt.hour == h) & (timestamp.dt.minute == m)
TimeEQ(a, b) == a.h = b.h /\ a.m = b.m

\* ------------------------------------------------------------ cost model
\* TAX_SCHEDULES: rates in units of 1e-4 percent (parts per million of turnover),
\* gst_pct in percent
TAX_SCHEDULES ==
    << [effective_from |-> 20200101, stt_sell_pct |-> 625, stt_buy_pct |-> 0,
        exchange_charges_pct |-> 495, sebi_fee_pct |-> 1, gst_pct |-> 18,
        stamp_duty_pct |-> 30],
       [effective_from |-> 20241001, stt_sell_pct |-> 1000, stt_buy_pct |-> 1000,
        exchange_charges_pct |-> 495, sebi_fee_pct |-> 1, gst_pct |-> 18,
        stamp_duty_pct |-> 30] >>

RECURSIVE ScanSchedules(_, _, _)
ScanSchedules(trade_date, i, applicable) ==
    IF i > Len(TAX_SCHEDULES) THEN applicable
    ELSE ScanSchedules(trade_date, i + 1,
                       IF trade_date >= TAX_SCHEDULES[i].effective_from
                       THEN TAX_SCHEDULES[i] ELSE applicable)

\* get_tax_rates taking a schedule from the day after its effective_from
get_tax_rates_DayAfter(trade_date) ==
    LET later == {i \in DOMAIN TAX_SCHEDULES : trade_date > TAX_SCHEDULES[i].effective_from}
    IN  IF later = {} THEN TAX_SCHEDULES[1]
        ELSE TAX_SCHEDULES[CHOOSE i \in later : \A j \in later : j <= i]
get_tax_rates(trade_date) == ScanSchedules(trade_date, 1, TAX_SCHEDULES[1])

\* CostConfig: slippage_pts in paise per unit, brokerage_per_order in money units,
\* custom_tax_rates <<>> for None and <<rates>> for a dict of rates
CostConfigs ==
    { [slippage_pts |-> 50, brokerage_per_order |-> 200000, use_taxes |-> TRUE,
       custom_tax_rates |-> <<>>],
      [slippage_pts |-> 50, brokerage_per_order |-> 200000, use_taxes |-> FALSE,
       custom_tax_rates |-> <<>>] }

ZeroCost ==
    [slippage |-> 0, brokerage |-> 0, stt |-> 0, exchange_charges |-> 0,
     sebi_fee |-> 0, gst |-> 0, stamp_duty |-> 0]

\* turnover * rate / 100: turnover in paise, rate in 1e-4 percent, the result in
\* money units (paise * 100 * rate * 1e-6)
RateOn(turnover, rate) == (turnover * rate) \div (Pct * Pct)

\* TradeCost.total leaving the stamp duty out
CostTotal_NoStampDuty(cost) ==
    cost.slippage + cost.brokerage + cost.stt + cost.exchange_charges
    + cost.sebi_fee + cost.gst
\* TradeCost.total
CostTotal(cost) ==
    cost.slippage + cost.brokerage + cost.stt + cost.exchange_charges
    + cost.sebi_fee + cost.gst + cost.stamp_duty

\* CostModel.calculate charging the slippage of the entry only
calculate_EntrySlippage(cc, trade_date, action, premium, exit_premium, quantity, num_legs) ==
    LET slippage == cc.slippage_pts * quantity * num_legs * MoneyPerPaisa
        num_orders == num_legs * 2
        brokerage == cc.brokerage_per_order * num_orders
        rates == IF cc.custom_tax_rates # <<>> THEN cc.custom_tax_rates[1]
                 ELSE get_tax_rates(trade_date)
        entry_turnover == premium * quantity * num_legs
        exit_turnover == exit_premium * quantity * num_legs
        total_turnover == entry_turnover + exit_turnover
        stt == IF action = "SELL"
               THEN RateOn(entry_turnover, rates.stt_sell_pct)
                    + RateOn(exit_turnover, rates.stt_buy_pct)
               ELSE RateOn(entry_turnover, rates.stt_buy_pct)
                    + RateOn(exit_turnover, rates.stt_sell_pct)
        exchange_charges == RateOn(total_turnover, rates.exchange_charges_pct)
        sebi_fee == RateOn(total_turnover, rates.sebi_fee_pct)
        gst_base == brokerage + exchange_charges + sebi_fee
        gst == (gst_base * rates.gst_pct) \div Pct
        buy_turnover == IF action = "BUY" THEN entry_turnover ELSE exit_turnover
        stamp_duty == RateOn(buy_turnover, rates.stamp_duty_pct)
    IN  IF ~cc.use_taxes
        THEN [ZeroCost EXCEPT !.slippage = slippage, !.brokerage = brokerage]
        ELSE [slippage |-> slippage, brokerage |-> brokerage, stt |-> stt,
              exchange_charges |-> exchange_charges, sebi_fee |-> sebi_fee,
              gst |-> gst, stamp_duty |-> stamp_duty]
\* CostModel.calculate; premium and exit_premium in paise
calculate(cc, trade_date, action, premium, exit_premium, quantity, num_legs) ==
    LET slippage == cc.slippage_pts * quantity * num_legs * 2 * MoneyPerPaisa
        num_orders == num_legs * 2
        brokerage == cc.brokerage_per_order * num_orders
        \* custom_tax_rates if it is a non-empty dict, else the schedule of the date
        rates == IF cc.custom_tax_rates # <<>> THEN cc.custom_tax_rates[1]
                 ELSE get_tax_rates(trade_date)
        entry_turnover == premium * quantity * num_legs
        exit_turnover == exit_premium * quantity * num_legs
        total_turnover == entry_turnover + exit_turnover
        stt == IF action = "SELL"
               THEN RateOn(entry_turnover, rates.stt_sell_pct)
                    + RateOn(exit_turnover, rates.stt_buy_pct)
               ELSE RateOn(entry_turnover, rates.stt_buy_pct)
                    + RateOn(exit_turnover, rates.stt_sell_pct)
        exchange_charges == RateOn(total_turnover, rates.exchange_charges_pct)
        sebi_fee == RateOn(total_turnover, rates.sebi_fee_pct)
        gst_base == brokerage + exchange_charges + sebi_fee
        gst == (gst_base * rates.gst_pct) \div Pct
        buy_turnover == IF action = "BUY" THEN entry_turnover ELSE exit_turnover
        stamp_duty == RateOn(buy_turnover, rates.stamp_duty_pct)
    IN  IF ~cc.use_taxes
        THEN [ZeroCost EXCEPT !.slippage = slippage, !.brokerage = brokerage]
        ELSE [slippage |-> slippage, brokerage |-> brokerage, stt |-> stt,
              exchange_charges |-> exchange_charges, sebi_fee |-> sebi_fee,
              gst |-> gst, stamp_duty |-> stamp_duty]

\* ------------------------------------------------------- per-leg rule engine
\* A candle row of one (strike label, option type) series: prices in rupees.
\* low <= open, close <= high, as in exchange data.
Candles ==
    {c \in [ts : Times, open : Prices, high : Prices, low : Prices, close : Prices] :
        c.low <= c.open /\ c.low <= c.close /\ c.open <= c.high /\ c.close <= c.high}
NoRow == [ts |-> [h |-> 0, m |-> 0], open |-> 0, high |-> 0, low |-> 0, close |-> 0]

\* the float value of a candle price, in paise
Paise(p) == p * Pct

\* leg.sl_pct if leg.sl_pct is not None else config.sl_pct (and target_pct alike)
EffectivePct(leg_pct, config_pct) == IF leg_pct # NoneVal THEN leg_pct ELSE config_pct

\* sl_price: entry_price * (1 + sl_pct / 100) for SELL, (1 - sl_pct / 100) for BUY
SlPrice(action, entry_price, sl_pct) ==
    IF sl_pct > 0
    THEN IF action = "SELL" THEN (entry_price * (Pct + sl_pct)) \div Pct
         ELSE (entry_price * (Pct - sl_pct)) \div Pct
    ELSE NoneVal

\* target_price: entry_price * (1 - target_pct / 100) for SELL, (1 + ...) for BUY
TargetPrice(action, entry_price, target_pct) ==
    IF target_pct > 0
    THEN IF action = "SELL" THEN (entry_price * (Pct - target_pct)) \div Pct
         ELSE (entry_price * (Pct + target_pct)) \div Pct
    ELSE NoneVal

\* The values execute_leg holds when its scan starts.
EntryState(inp, entry_row) ==
    LET entry_price == Paise(entry_row.open)
        sl_pct == EffectivePct(inp.leg_sl_pct, inp.sl_pct)
        target_pct == EffectivePct(inp.leg_target_pct, inp.target_pct)
    IN  [entry_price |-> entry_price,
         entry_ts |-> entry_row.ts,
         sl_price |-> SlPrice(inp.action, entry_price, sl_pct),
         target_price |-> TargetPrice(inp.action, entry_price, target_pct),
         exit_price |-> entry_price,
         exit_time |-> inp.exit_time,
         exit_reason |-> "time_exit"]
NoEntry ==
    [entry_price |-> 0, entry_ts |-> [h |-> 0, m |-> 0], sl_price |-> NoneVal,
     target_price |-> NoneVal, exit_price |-> 0, exit_time |-> [h |-> 0, m |-> 0],
     exit_reason |-> ""]

Exit(price, candle, reason) ==
    [hit |-> TRUE, exit_price |-> price, exit_time |-> candle.ts, exit_reason |-> reason]
NoExit == [hit |-> FALSE, exit_price |-> 0, exit_time |-> [h |-> 0, m |-> 0], exit_reason |-> ""]

\* the time exit check of the loop body
TimeExitCheck(inp, candle) ==
    IF TimeGE(candle.ts, inp.exit_time)
    THEN Exit(Paise(candle.open), candle, "time_exit") ELSE NoExit

\* SlCheck with the hard stop filled at the candle's extreme instead of the stop price
SlCheck_ExitAtExtreme(inp, st, candle) ==
    IF st.sl_price = NoneVal THEN NoExit
    ELSE IF inp.action = "SELL"
    THEN IF inp.sl_type = "hard" /\ Paise(candle.high) >= st.sl_price
         THEN Exit(Paise(candle.high), candle, "sl_hard")
         ELSE IF inp.sl_type = "close" /\ Paise(candle.close) >= st.sl_price
         THEN Exit(Paise(candle.close), candle, "sl_close")
         ELSE NoExit
    ELSE IF inp.sl_type = "hard" /\ Paise(candle.low) <= st.sl_price
         THEN Exit(Paise(candle.low), candle, "sl_hard")
         ELSE IF inp.sl_type = "close" /\ Paise(candle.close) <= st.sl_price
         THEN Exit(Paise(candle.close), candle, "sl_close")
         ELSE NoExit

\* SlCheck with the close stop triggered by the candle's extreme instead of its close
SlCheck_CloseOnExtreme(inp, st, candle) ==
    IF st.sl_price = NoneVal THEN NoExit
    ELSE IF inp.action = "SELL"
    THEN IF inp.sl_type = "hard" /\ Paise(candle.high) >= st.sl_price
         THEN Exit(st.sl_price, candle, "sl_hard")
         ELSE IF inp.sl_type = "close" /\ Paise(candle.high) >= st.sl_price
         THEN Exit(Paise(candle.close), candle, "sl_close")
         ELSE NoExit
    ELSE IF inp.sl_type = "hard" /\ Paise(candle.low) <= st.sl_price
         THEN Exit(st.sl_price, candle, "sl_hard")
         ELSE IF inp.sl_type = "close" /\ Paise(candle.low) <= st.sl_price
         THEN Exit(Paise(candle.close), candle, "sl_close")
         ELSE NoExit

\* the SL check of the loop body
SlCheck(inp, st, candle) ==
    IF st.sl_price = NoneVal THEN NoExit
    ELSE IF inp.action = "SELL"
    THEN IF inp.sl_type = "hard" /\ Paise(candle.high) >= st.sl_price
         THEN Exit(st.sl_price, candle, "sl_hard")
         ELSE IF inp.sl_type = "close" /\ Paise(candle.close) >= st.sl_price
         THEN Exit(Paise(candle.close), candle, "sl_close")
         ELSE NoExit
    ELSE IF inp.sl_type = "hard" /\ Paise(candle.low) <= st.sl_price
         THEN Exit(st.sl_price, candle, "sl_hard")
         ELSE IF inp.sl_type = "close" /\ Paise(candle.close) <= st.sl_price
         THEN Exit(Paise(candle.close), candle, "sl_close")
         ELSE NoExit

\* the target check of the loop body
TargetCheck(inp, st, candle) ==
    IF st.target_price = NoneVal THEN NoExit
    ELSE IF inp.action = "SELL"
    THEN IF inp.target_type = "hard" /\ Paise(candle.low) <= st.target_price
         THEN Exit(st.target_price, candle, "target_hard")
         ELSE IF inp.target_type = "close" /\ Paise(candle.close) <= st.target_price
         THEN Exit(Paise(candle.close), candle, "target_close")
         ELSE NoExit
    ELSE IF inp.target_type = "hard" /\ Paise(candle.high) >= st.target_price
         THEN Exit(st.target_price, candle, "target_hard")
         ELSE IF inp.target_type = "close" /\ Paise(candle.close) >= st.target_price
         THEN Exit(Paise(candle.close), candle, "target_close")
         ELSE NoExit

\* ScanCandle with the target check placed before the SL check
ScanCandle_TargetBeforeStop(inp, st, candle) ==
    LET t == TimeExitCheck(inp, candle)
        s == SlCheck(inp, st, candle)
        g == TargetCheck(inp, st, candle)
    IN  IF t.hit THEN t ELSE IF g.hit THEN g ELSE IF s.hit THEN s ELSE NoExit

\* One iteration of "for _, candle in post_entry.iterrows()": the first check that
\* matches breaks the loop.
ScanCandle(inp, st, candle) ==
    LET t == TimeExitCheck(inp, candle)
        s == SlCheck(inp, st, candle)
        g == TargetCheck(inp, st, candle)
    IN  IF t.hit THEN t ELSE IF s.hit THEN s ELSE IF g.hit THEN g ELSE NoExit

\* SkipTrade with the skipped flag left at its default
SkipTrade_NotFlagged(inp, reason, skip_reason) ==
    [trade_date |-> inp.trade_date, leg_id |-> 0, action |-> inp.action,
     strike |-> inp.strike, option_type |-> inp.option_type, dte |-> inp.dte,
     entry_time |-> inp.entry_time,
     exit_time |-> inp.exit_time, entry_price |-> 0, exit_price |-> 0,
     exit_reason |-> reason, quantity |-> 0, gross_pnl |-> 0, has_cost |-> FALSE,
     cost |-> ZeroCost, net_pnl |-> 0, skipped |-> FALSE, skip_reason |-> skip_reason]

\* The skip records execute_leg returns (cost=None, net_pnl=0.0 by default).
SkipTrade(inp, reason, skip_reason) ==
    [trade_date |-> inp.trade_date, leg_id |-> 0, action |-> inp.action,
     strike |-> inp.strike, option_type |-> inp.option_type, dte |-> inp.dte,
     entry_time |-> inp.entry_time,
     exit_time |-> inp.exit_time, entry_price |-> 0, exit_price |-> 0,
     exit_reason |-> reason, quantity |-> 0, gross_pnl |-> 0, has_cost |-> FALSE,
     cost |-> ZeroCost, net_pnl |-> 0, skipped |-> TRUE, skip_reason |-> skip_reason]

\* the returned OptionTrade with the costs left out of net_pnl
MakeTrade_NetIsGross(inp, st) ==
    LET quantity == inp.lots * inp.lot_size
        gross_pnl == IF inp.action = "SELL"
                     THEN (st.entry_price - st.exit_price) * quantity * MoneyPerPaisa
                     ELSE (st.exit_price - st.entry_price) * quantity * MoneyPerPaisa
        trade_cost == calculate(inp.cost_config, inp.trade_date, inp.action,
                                st.entry_price, st.exit_price, quantity, 1)
    IN  [trade_date |-> inp.trade_date, leg_id |-> 0, action |-> inp.action,
         strike |-> inp.strike, option_type |-> inp.option_type, dte |-> inp.dte,
         entry_time |-> inp.entry_time,
         exit_time |-> st.exit_time, entry_price |-> st.entry_price,
         exit_price |-> st.exit_price, exit_reason |-> st.exit_reason,
         quantity |-> quantity, gross_pnl |-> gross_pnl, has_cost |-> TRUE,
         cost |-> trade_cost, net_pnl |-> gross_pnl,
         skipped |-> FALSE, skip_reason |-> ""]
\* "Calculate P&L", "Calculate costs" and the returned OptionTrade.
MakeTrade(inp, st) ==
    LET quantity == inp.lots * inp.lot_size
        gross_pnl == IF inp.action = "SELL"
                     THEN (st.entry_price - st.exit_price) * quantity * MoneyPerPaisa
                     ELSE (st.exit_price - st.entry_price) * quantity * MoneyPerPaisa
        trade_cost == calculate(inp.cost_config, inp.trade_date, inp.action,
                                st.entry_price, st.exit_price, quantity, 1)
    IN  [trade_date |-> inp.trade_date, leg_id |-> 0, action |-> inp.action,
         strike |-> inp.strike, option_type |-> inp.option_type, dte |-> inp.dte,
         entry_time |-> inp.entry_time,
         exit_time |-> st.exit_time, entry_price |-> st.entry_price,
         exit_price |-> st.exit_price, exit_reason |-> st.exit_reason,
         quantity |-> quantity, gross_pnl |-> gross_pnl, has_cost |-> TRUE,
         cost |-> trade_cost, net_pnl |-> gross_pnl - CostTotal(trade_cost),
         skipped |-> FALSE, skip_reason |-> ""]
NoTrade ==
    [trade_date |-> 0, leg_id |-> 0, action |-> "", strike |-> "", option_type |-> "",
     dte |-> 0, entry_time |-> [h |-> 0, m |-> 0],
     exit_time |-> [h |-> 0, m |-> 0], entry_price |-> 0, exit_price |-> 0,
     exit_reason |-> "", quantity |-> 0, gross_pnl |-> 0, has_cost |-> FALSE,
     cost |-> ZeroCost, net_pnl |-> 0, skipped |-> FALSE, skip_reason |-> ""]

\* ------------------------------------------------ execute_leg on a day's rows
\* A row of day_data: a candle with its relative strike label and option type.
Row(strike_rel, type, c) ==
    [strike_rel |-> strike_rel, type |-> type, ts |-> c.ts, open |-> c.open,
     high |-> c.high, low |-> c.low, close |-> c.close]

\* sort_values("timestamp") of a set of rows with distinct timestamps
RECURSIVE SortByTs(_)
SortByTs(rows) ==
    IF rows = {} THEN <<>>
    ELSE LET first == CHOOSE r \in rows : \A q \in rows : ~TimeGT(r.ts, q.ts)
         IN  <<first>> \o SortByTs(rows \ {first})

\* the for loop over post_entry, from its i-th row on
RECURSIVE ScanFrom(_, _, _, _)
ScanFrom(inp, st, post_entry, i) ==
    IF i > Len(post_entry) THEN st
    ELSE LET r == ScanCandle(inp, st, post_entry[i])
         IN  IF r.hit
             THEN [st EXCEPT !.exit_price = r.exit_price, !.exit_time = r.exit_time,
                             !.exit_reason = r.exit_reason]
             ELSE ScanFrom(inp, st, post_entry, i + 1)

\* The values of leg, config, trade_date, dte and cost_model that execute_leg reads.
LegArgs(leg, config, trade_date, dte, cc) ==
    [action |-> leg.action, sl_pct |-> config.sl_pct, leg_sl_pct |-> leg.sl_pct,
     target_pct |-> config.target_pct, leg_target_pct |-> leg.target_pct,
     sl_type |-> config.sl_type, target_type |-> config.target_type,
     entry_time |-> config.entry_time, exit_time |-> config.exit_time,
     lots |-> leg.lots, lot_size |-> config.lot_size, strike |-> leg.strike,
     option_type |-> leg.option_type, dte |-> dte, cost_config |-> cc,
     trade_date |-> trade_date]

\* execute_leg(day_data, leg, config, trade_date, dte, cost_model)
execute_leg(day_data, leg, config, trade_date, dte, cc) ==
    LET inp == LegArgs(leg, config, trade_date, dte, cc)
        leg_type == IF leg.option_type = "CE" THEN "CALL" ELSE "PUT"
        strike_data ==
            SortByTs({r \in day_data.rows : r.strike_rel = leg.strike /\ r.type = leg_type})
        IsEntry(r) == TimeEQ(r.ts, inp.entry_time)
        entry_candles == SelectSeq(strike_data, IsEntry)
    IN  IF strike_data = <<>>
        THEN SkipTrade(inp, "no_data", "No data for this strike/type")
        ELSE IF entry_candles = <<>>
        THEN SkipTrade(inp, "no_entry_candle", "No candle at entry_time")
        ELSE LET st == EntryState(inp, entry_candles[1])
                 AfterEntry(r) == TimeGT(r.ts, st.entry_ts)
                 post_entry == SelectSeq(strike_data, AfterEntry)
             IN  MakeTrade(inp, ScanFrom(inp, st, post_entry, 1))

\* ------------------------------------------------------- check_data_boundary
\* check_data_boundary without the test for missing strike labels
check_data_boundary_NoMissingTest(day_data, config) ==
    LET required_strikes == {config.legs[i].strike : i \in DOMAIN config.legs}
        StrikeData(strike) == SortByTs({r \in day_data.rows : r.strike_rel = strike})
        Empty(strike) == StrikeData(strike) = <<>>
        Uncovered(strike) ==
            LET sd == StrikeData(strike)
                first_ts == sd[1].ts
                last_ts == sd[Len(sd)].ts
            IN  TimeGT(first_ts, config.entry_time) \/ TimeGT(config.exit_time, last_ts)
    IN  IF \E strike \in required_strikes : Empty(strike)
        THEN [valid |-> FALSE, reason |-> "No data for strike ",
              strikes |-> {strike \in required_strikes : Empty(strike)}]
        ELSE IF \E strike \in required_strikes : Uncovered(strike)
        THEN [valid |-> FALSE, reason |-> "Strike data doesn't cover ",
              strikes |-> {strike \in required_strikes : Uncovered(strike)}]
        ELSE [valid |-> TRUE, reason |-> "", strikes |-> {}]

\* check_data_boundary(day_data, config): (is_valid, reason).  The reason is its
\* fixed text; the strikes it names follow in "strikes".
check_data_boundary(day_data, config) ==
    LET required_strikes == {config.legs[i].strike : i \in DOMAIN config.legs}
        available_strikes == {r.strike_rel : r \in day_data.rows}
        missing == required_strikes \ available_strikes
        StrikeData(strike) == SortByTs({r \in day_data.rows : r.strike_rel = strike})
        Empty(strike) == StrikeData(strike) = <<>>
        Uncovered(strike) ==
            LET sd == StrikeData(strike)
                first_ts == sd[1].ts
                last_ts == sd[Len(sd)].ts
            IN  TimeGT(first_ts, config.entry_time) \/ TimeGT(config.exit_time, last_ts)
    IN  IF missing # {}
        THEN [valid |-> FALSE, reason |-> "Missing strikes: ", strikes |-> missing]
        ELSE IF \E strike \in required_strikes : Empty(strike)
        THEN [valid |-> FALSE, reason |-> "No data for strike ",
              strikes |-> {strike \in required_strikes : Empty(strike)}]
        ELSE IF \E strike \in required_strikes : Uncovered(strike)
        THEN [valid |-> FALSE, reason |-> "Strike data doesn't cover ",
              strikes |-> {strike \in required_strikes : Uncovered(strike)}]
        ELSE [valid |-> TRUE, reason |-> "", strikes |-> {}]

\* leg.strike.startswith("ATM"), over the strike labels of the model
StartsWithATM(strike) == strike \in {"ATM", "ATM+5"}

\* validate without the test of the strike label
validate_AnyStrike(config) ==
    (IF config.legs = <<>> THEN {"At least one leg is required"} ELSE {})
    \cup {"action must be BUY or SELL" : i \in
            {j \in DOMAIN config.legs : config.legs[j].action \notin {"BUY", "SELL"}}}
    \cup {"option_type must be CE or PE" : i \in
            {j \in DOMAIN config.legs : config.legs[j].option_type \notin {"CE", "PE"}}}
    \cup (IF config.sl_type \notin {"hard", "close"}
          THEN {"sl_type must be 'hard' or 'close'"} ELSE {})
    \cup (IF config.target_type \notin {"hard", "close"}
          THEN {"target_type must be 'hard' or 'close'"} ELSE {})
\* StrategyConfig.validate(): the set of errors (entry_time and exit_time are held
\* parsed, so their format errors do not arise)
validate(config) ==
    (IF config.legs = <<>> THEN {"At least one leg is required"} ELSE {})
    \cup {"action must be BUY or SELL" : i \in
            {j \in DOMAIN config.legs : config.legs[j].action \notin {"BUY", "SELL"}}}
    \cup {"option_type must be CE or PE" : i \in
            {j \in DOMAIN config.legs : config.legs[j].option_type \notin {"CE", "PE"}}}
    \cup {"strike must be ATM, ATM+N, or ATM-N" : i \in
            {j \in DOMAIN config.legs : ~StartsWithATM(config.legs[j].strike)}}
    \cup (IF config.sl_type \notin {"hard", "close"}
          THEN {"sl_type must be 'hard' or 'close'"} ELSE {})
    \cup (IF config.target_type \notin {"hard", "close"}
          THEN {"target_type must be 'hard' or 'close'"} ELSE {})

\* ------------------------------------------------- StrategyContext, operators
\* None for a time argument, and the exit_time "" of a position
NoTime == [h |-> NoneVal, m |-> NoneVal]
\* iloc[0] of a selection: the least index selected
FirstIndex(S) == CHOOSE k \in S : \A j \in S : k <= j
RemoveAt(seq, k) == [j \in 1..(Len(seq) - 1) |-> IF j < k THEN seq[j] ELSE seq[j + 1]]

\* StrategyContext.get_candles
get_candles(day_data, strike, option_type) ==
    LET leg_type == IF option_type = "CE" THEN "CALL" ELSE "PUT"
    IN  SortByTs({r \in day_data.rows : r.strike_rel = strike /\ r.type = leg_type})

\* StrategyContext.get_option_price_at: the open at hour:minute, 0.0 without data
get_option_price_at(day_data, strike, option_type, t) ==
    LET candles == get_candles(day_data, strike, option_type)
        rows == {k \in DOMAIN candles : candles[k].ts.h = t.h /\ candles[k].ts.m = t.m}
    IN  IF rows = {} THEN 0 ELSE Paise(candles[FirstIndex(rows)].open)

\* Position.unrealized_pnl
unrealized_pnl(pos) ==
    IF ~pos.is_open THEN 0
    ELSE IF pos.action = "SELL"
    THEN (pos.entry_price - pos.current_price) * pos.quantity * MoneyPerPaisa
    ELSE (pos.current_price - pos.entry_price) * pos.quantity * MoneyPerPaisa

\* Position(...) without current_price=price: the mark is the default 0.0
NewPosition_Unmarked(pid, strike, option_type, action, lots, lot_size, price, entry_time) ==
    [id |-> pid, strike |-> strike, option_type |-> option_type, action |-> action,
     lots |-> lots, quantity |-> lots * lot_size, entry_price |-> price,
     entry_time |-> entry_time, exit_price |-> 0, exit_time |-> NoTime,
     exit_reason |-> "", is_open |-> TRUE, gross_pnl |-> 0, has_cost |-> FALSE,
     cost |-> ZeroCost, net_pnl |-> 0, current_price |-> 0]
\* Position(...) as open_position builds it
NewPosition(pid, strike, option_type, action, lots, lot_size, price, entry_time) ==
    [id |-> pid, strike |-> strike, option_type |-> option_type, action |-> action,
     lots |-> lots, quantity |-> lots * lot_size, entry_price |-> price,
     entry_time |-> entry_time, exit_price |-> 0, exit_time |-> NoTime,
     exit_reason |-> "", is_open |-> TRUE, gross_pnl |-> 0, has_cost |-> FALSE,
     cost |-> ZeroCost, net_pnl |-> 0, current_price |-> price]

\* open_position taking an id before it resolves the price
OpenPosition_ConsumesId(inp, st, strike, option_type, action, lots, price, at_time) ==
    LET at == IF price = NoneVal /\ at_time = NoTime THEN inp.entry_time ELSE at_time
        p == IF price = NoneVal
             THEN get_option_price_at(inp.day_data, strike, option_type, at)
             ELSE price
        entry_time == IF at # NoTime THEN at ELSE inp.entry_time
        pid == st.next_id
    IN  IF p <= 0 THEN [st EXCEPT !.next_id = pid + 1, !.ret = 0 - 1]
        ELSE [st EXCEPT !.positions = Append(st.positions,
                            NewPosition(pid, strike, option_type, action, lots,
                                        inp.lot_size, p, entry_time)),
                        !.next_id = pid + 1,
                        !.ret = pid]

\* The body of open_position on st.positions and st.next_id of a context built from
\* inp; st.ret is the id returned, -1 when no positive price is resolved.
OpenPosition(inp, st, strike, option_type, action, lots, price, at_time) ==
    LET at == IF price = NoneVal /\ at_time = NoTime THEN inp.entry_time ELSE at_time
        p == IF price = NoneVal
             THEN get_option_price_at(inp.day_data, strike, option_type, at)
             ELSE price
        entry_time == IF at # NoTime THEN at ELSE inp.entry_time
        pid == st.next_id
    IN  IF p <= 0 THEN [st EXCEPT !.ret = 0 - 1]
        ELSE [st EXCEPT !.positions = Append(st.positions,
                            NewPosition(pid, strike, option_type, action, lots,
                                        inp.lot_size, p, entry_time)),
                        !.next_id = pid + 1,
                        !.ret = pid]

\* The body of update_prices on the list of positions
UpdatePrices(inp, positions, candle_time) ==
    [k \in DOMAIN positions |->
        LET pos == positions[k]
            candles == get_candles(inp.day_data, pos.strike, pos.option_type)
            rows == {j \in DOMAIN candles : /\ candles[j].ts.h = candle_time.h
                                            /\ candles[j].ts.m = candle_time.m}
        IN  IF pos.is_open /\ rows # {}
            THEN [pos EXCEPT !.current_price = Paise(candles[FirstIndex(rows)].close)]
            ELSE pos]

\* close_position looking for the id among the closed positions as well
ClosePosition_ClosedToo(inp, st, position_id, price, reason, at_time) ==
    LET found == {k \in DOMAIN st.positions : st.positions[k].id = position_id}
        again == {k \in DOMAIN st.closed_positions :
                    st.closed_positions[k].id = position_id}
        pos == IF found # {} THEN st.positions[FirstIndex(found)]
               ELSE st.closed_positions[FirstIndex(again)]
        exit_price == IF price # NoneVal THEN price ELSE pos.current_price
        gross_pnl == IF pos.action = "SELL"
                     THEN (pos.entry_price - exit_price) * pos.quantity * MoneyPerPaisa
                     ELSE (exit_price - pos.entry_price) * pos.quantity * MoneyPerPaisa
        cost == calculate(inp.cost_config, inp.trade_date, pos.action,
                          pos.entry_price, exit_price, pos.quantity, 1)
        closed == [pos EXCEPT !.exit_price = exit_price, !.exit_time = at_time,
                              !.exit_reason = reason, !.is_open = FALSE,
                              !.gross_pnl = gross_pnl, !.has_cost = TRUE,
                              !.cost = cost, !.net_pnl = gross_pnl - CostTotal(cost)]
    IN  IF found = {} /\ again = {} THEN [st EXCEPT !.ret = FALSE]
        ELSE [positions |-> IF found # {} THEN RemoveAt(st.positions, FirstIndex(found))
                            ELSE st.positions,
              closed_positions |-> Append(st.closed_positions, closed),
              ret |-> TRUE]
\* The body of close_position on the lists st.positions and st.closed_positions of a
\* context built from inp; st.ret is the value returned.
ClosePosition(inp, st, position_id, price, reason, at_time) ==
    LET found == {k \in DOMAIN st.positions :
                    st.positions[k].id = position_id /\ st.positions[k].is_open}
    IN  IF found = {} THEN [st EXCEPT !.ret = FALSE]
        ELSE
        LET k == FirstIndex(found)
            pos == st.positions[k]
            exit_price == IF price # NoneVal THEN price ELSE pos.current_price
            gross_pnl == IF pos.action = "SELL"
                         THEN (pos.entry_price - exit_price) * pos.quantity * MoneyPerPaisa
                         ELSE (exit_price - pos.entry_price) * pos.quantity * MoneyPerPaisa
            cost == calculate(inp.cost_config, inp.trade_date, pos.action,
                              pos.entry_price, exit_price, pos.quantity, 1)
            closed == [pos EXCEPT !.exit_price = exit_price, !.exit_time = at_time,
                                  !.exit_reason = reason, !.is_open = FALSE,
                                  !.gross_pnl = gross_pnl, !.has_cost = TRUE,
                                  !.cost = cost,
                                  !.net_pnl = gross_pnl - CostTotal(cost)]
        IN  [positions |-> RemoveAt(st.positions, k),
             closed_positions |-> Append(st.closed_positions, closed),
             ret |-> TRUE]

\* price_map.get(pid) if price_map else None; a price map is a sequence of prices,
\* one for each of the ids 1..Len
PriceFor(price_map, pid) == IF pid \in DOMAIN price_map THEN price_map[pid] ELSE NoneVal

\* the loop of close_all over open_ids
RECURSIVE CloseEach(_, _, _, _, _, _)
CloseEach(inp, st, open_ids, reason, price_map, at_time) ==
    IF open_ids = <<>> THEN st
    ELSE CloseEach(inp,
                   ClosePosition(inp, st, Head(open_ids), PriceFor(price_map, Head(open_ids)),
                                 reason, at_time),
                   Tail(open_ids), reason, price_map, at_time)

\* the exit price _force_close_open_positions gives a position
ForceClosePrice(inp, pos) ==
    LET candles == get_candles(inp.day_data, pos.strike, pos.option_type)
        late_candles == {k \in DOMAIN candles : candles[k].ts.h >= inp.exit_time.h}
    IN  IF late_candles # {} THEN Paise(candles[FirstIndex(late_candles)].open)
        ELSE pos.current_price

\* _force_close_open_positions closing nothing
ForceCloseEach_Nothing(inp, st, snapshot) == st

\* the loop of _force_close_open_positions over list(self._positions)
RECURSIVE ForceCloseEach(_, _, _)
ForceCloseEach(inp, st, snapshot) ==
    IF snapshot = <<>> THEN st
    ELSE LET pos == Head(snapshot)
         IN  ForceCloseEach(inp,
                            IF pos.is_open
                            THEN ClosePosition(inp, st, pos.id, ForceClosePrice(inp, pos),
                                               "time_exit", inp.exit_time)
                            ELSE st,
                            Tail(snapshot))

\* TradeRecord(...) of a closed position
TradeRecord(inp, pos) ==
    [trade_date |-> inp.trade_date, strike |-> pos.strike, option_type |-> pos.option_type,
     action |-> pos.action, lots |-> pos.lots, quantity |-> pos.quantity,
     entry_price |-> pos.entry_price, exit_price |-> pos.exit_price,
     entry_time |-> pos.entry_time, exit_time |-> pos.exit_time,
     exit_reason |-> pos.exit_reason, gross_pnl |-> pos.gross_pnl,
     net_pnl |-> pos.net_pnl, dte |-> inp.dte, has_cost |-> pos.has_cost,
     cost |-> pos.cost]

RECURSIVE SumNet(_)
SumNet(trades) == IF trades = <<>> THEN 0 ELSE Head(trades).net_pnl + SumNet(Tail(trades))

\* _collect_day_result without the force close
CollectDayResult_NoForceClose(inp, st) ==
    LET trades == [k \in DOMAIN st.closed_positions |->
                    TradeRecord(inp, st.closed_positions[k])]
    IN  [positions |-> st.positions, closed_positions |-> st.closed_positions,
         result |-> [trades |-> trades, daily_pnl |-> SumNet(trades)]]

\* The body of _collect_day_result: the lists after the force close, and the DayResult
CollectDayResult(inp, st) ==
    LET closed == ForceCloseEach(inp, st, st.positions)
        trades == [k \in DOMAIN closed.closed_positions |->
                    TradeRecord(inp, closed.closed_positions[k])]
    IN  [positions |-> closed.positions, closed_positions |-> closed.closed_positions,
         result |-> [trades |-> trades, daily_pnl |-> SumNet(trades)]]

\* ------------------------------- straddle re-entry strategy (run_day), operators
\* Minutes of the day as run_day sees them: 0 is entry_t (09:16), 1..MaxMinutes are the
\* minutes walked, MaxMinutes + 1 is exit_t (14:30).
MaxMinutes == 2
EntryMinute == 0
ExitMinute == MaxMinutes + 1
\* sl_pct = 30; reentry_pct = 0.10, in percent
StratSlPct == 30
ReentryPct == 10
\* global_sl = -9000; profit_lock_trigger = 1500; profit_lock_level = 200 (rupees)
GlobalSl == 0 - Paise(9000)
ProfitLockTrigger == Paise(1500)
ProfitLockLevel == Paise(200)

\* no entry of a cache for the minute
MissingCandle == [open |-> 0, high |-> 0, close |-> 0, present |-> FALSE]
StratCandle(open, high, close) ==
    [open |-> Paise(open), high |-> Paise(high), close |-> Paise(close), present |-> TRUE]
\* The candles of a minute: flat at 70, 100, 150 and 200, a spike to 130, a close at 130.
StratCandles ==
    {StratCandle(70, 70, 70), StratCandle(100, 100, 100), StratCandle(100, 130, 100),
     StratCandle(100, 130, 130), StratCandle(150, 150, 150), StratCandle(200, 200, 200)}

\* cache.get(hm, {}).get("close", entry); .get("high", cur); .get("open", 0)
CurOf(candle, leg) == IF candle.present THEN candle.close ELSE leg.entry
HighOf(candle, leg) == IF candle.present THEN candle.high ELSE CurOf(candle, leg)
OpenOf(candle) == IF candle.present THEN candle.open ELSE 0

\* the variables of one side (ce_* or pe_*) after the entry prices are read
StratLeg(entry) ==
    [open |-> TRUE, entry |-> entry, sl |-> (entry * (100 + StratSlPct)) \div 100,
     exit_price |-> 0, exit_time |-> NoneVal, exit_reason |-> "time_exit",
     sl_hit |-> FALSE, reentry_done |-> FALSE, sl_exit_price |-> 0,
     open2 |-> FALSE, entry2 |-> 0, sl2 |-> 0, entry_time2 |-> NoneVal,
     exit_price2 |-> 0, exit_time2 |-> NoneVal, exit_reason2 |-> "time_exit"]
NoStratLeg == [StratLeg(0) EXCEPT !.open = FALSE]

\* the part of total_pnl of one side
SidePnl(leg, cur, qty) ==
    (IF leg.open THEN (leg.entry - cur) * qty ELSE 0)
    + (IF leg.open2 THEN (leg.entry2 - cur) * qty ELSE 0)

\* the closing of both legs of a side by the global stop or the profit lock
CloseSide(leg, cur, ts, reason) ==
    LET first == IF leg.open
                 THEN [leg EXCEPT !.exit_price = cur, !.exit_time = ts,
                                  !.exit_reason = reason, !.open = FALSE]
                 ELSE leg
    IN  IF first.open2
        THEN [first EXCEPT !.exit_price2 = cur, !.exit_time2 = ts,
                           !.exit_reason2 = reason, !.open2 = FALSE]
        ELSE first

\* "Leg 1 SL" of a side
Leg1Sl(leg, candle, ts, exit_mode) ==
    LET cur == CurOf(candle, leg)
        high == HighOf(candle, leg)
    IN  IF leg.open /\ ~leg.sl_hit
        THEN IF exit_mode = "hard"
             THEN IF high >= leg.sl
                  THEN [leg EXCEPT !.exit_price = leg.sl, !.exit_time = ts,
                                   !.exit_reason = "sl_hit", !.open = FALSE,
                                   !.sl_hit = TRUE, !.sl_exit_price = leg.sl]
                  ELSE leg
             ELSE IF cur >= leg.sl
                  THEN [leg EXCEPT !.exit_price = cur, !.exit_time = ts,
                                   !.exit_reason = "sl_hit", !.open = FALSE,
                                   !.sl_hit = TRUE, !.sl_exit_price = cur]
                  ELSE leg
        ELSE leg

\* "Re-entry" without the recovery test
Reentry_AnyPrice(leg, candle, ts) ==
    LET reentry_price == OpenOf(candle)
    IN  IF leg.sl_hit /\ ~leg.reentry_done /\ reentry_price > 0
        THEN [leg EXCEPT !.entry2 = reentry_price,
                         !.sl2 = (reentry_price * (100 + StratSlPct)) \div 100,
                         !.open2 = TRUE, !.reentry_done = TRUE, !.entry_time2 = ts]
        ELSE leg

\* "Re-entry" of a side: reentry_price >= sl_exit_price * (1 + reentry_pct)
Reentry(leg, candle, ts) ==
    LET reentry_price == OpenOf(candle)
    IN  IF leg.sl_hit /\ ~leg.reentry_done
           /\ reentry_price > 0
           /\ reentry_price * 100 >= leg.sl_exit_price * (100 + ReentryPct)
        THEN [leg EXCEPT !.entry2 = reentry_price,
                         !.sl2 = (reentry_price * (100 + StratSlPct)) \div 100,
                         !.open2 = TRUE, !.reentry_done = TRUE, !.entry_time2 = ts]
        ELSE leg

\* "Leg 2 SL" of a side
Leg2Sl(leg, candle, ts, exit_mode) ==
    LET cur == CurOf(candle, leg)
        high == HighOf(candle, leg)
    IN  IF leg.open2
        THEN IF exit_mode = "hard"
             THEN IF high >= leg.sl2
                  THEN [leg EXCEPT !.exit_price2 = leg.sl2, !.exit_time2 = ts,
                                   !.exit_reason2 = "reentry_sl", !.open2 = FALSE]
                  ELSE leg
             ELSE IF cur >= leg.sl2
                  THEN [leg EXCEPT !.exit_price2 = cur, !.exit_time2 = ts,
                                   !.exit_reason2 = "reentry_sl", !.open2 = FALSE]
                  ELSE leg
        ELSE leg

\* the checks of a side in one minute, in the order of the loop body; CE and PE touch
\* their own variables only
SideMinute(leg, candle, ts, exit_mode) ==
    Leg2Sl(Reentry(Leg1Sl(leg, candle, ts, exit_mode), candle, ts), candle, ts, exit_mode)

\* ce_close_price, pe_close_price: the open at exit_t, or the close of the last entry
\* of the cache
ClosePrice(exit_candle, last_candle) ==
    IF exit_candle.present THEN exit_candle.open ELSE last_candle.close

\* "Time exit for anything still open"
TimeExitSide(leg, close_price) ==
    LET first == IF leg.open
                 THEN [leg EXCEPT !.exit_price = close_price, !.exit_time = ExitMinute]
                 ELSE leg
    IN  IF first.open2
        THEN [first EXCEPT !.exit_price2 = close_price, !.exit_time2 = ExitMinute]
        ELSE first

\* result_trades of one side: make_trade for leg 1, then for the re-entry leg
SideTrades(leg, side, close_price) ==
    LET first == IF leg.exit_price > 0
                 THEN <<[label |-> "leg 1", option_type |-> side, entry_price |-> leg.entry,
                         exit_price |-> leg.exit_price, entry_time |-> EntryMinute,
                         exit_time |-> leg.exit_time, exit_reason |-> leg.exit_reason]>>
                 ELSE <<>>
        second == IF leg.entry2 > 0 /\ (leg.exit_price2 > 0 \/ ~leg.open2)
                  THEN <<[label |-> "leg 2 (re-entry)", option_type |-> side,
                          entry_price |-> leg.entry2,
                          exit_price |-> IF leg.exit_price2 = 0 THEN close_price
                                         ELSE leg.exit_price2,
                          entry_time |-> leg.entry_time2,
                          exit_time |-> IF leg.exit_time2 = NoneVal THEN ExitMinute
                                        ELSE leg.exit_time2,
                          exit_reason |-> leg.exit_reason2]>>
                  ELSE <<>>
    IN  [first |-> first, second |-> second]

\* a (code, name) that is not bound yet
Unbound == [code |-> <<>>, name |-> "<unbound>"]

\* ----------------------------------------------- execute_leg as a state machine
VARIABLES
    leg_in,      \* the arguments of execute_leg: leg, config, trade_date, cost model
    leg_pc,      \* "await" | "open" | "skipped" | "exited" | "exhausted"
    leg_row,     \* the row of strike_data read last (the entry row, then each candle)
    leg_st,      \* entry_price, sl_price, target_price, exit_price, exit_time, exit_reason
    leg_trade,   \* the OptionTrade returned
    \* OptionsBacktester.run
    run_cfg,     \* config
    run_pc,      \* "start" | "loop" | "boundary" | "legs" | "done" | "error"
    run_current, \* current, as an index of Calendar
    run_day,     \* day_data
    run_dte,     \* dte
    run_i,       \* i + 1 of "for i, leg in enumerate(config.legs)"
    run_trades,  \* result.trades
    run_skipped, \* result.skipped_days
    \* StrategyContext
    ctx_in,      \* the arguments of __init__
    ctx_pc,      \* "live": the strategy is calling; "collected": after _collect_day_result
    ctx_positions,         \* self._positions
    ctx_closed_positions,  \* self._closed_positions
    ctx_next_id,           \* self._next_id
    ctx_result,  \* the DayResult of _collect_day_result
    \* CodegenBacktester.execute; its ctx is the StrategyContext above
    exec_pc,        \* "start" | "loop" | "strategy" | "collect" | "done" | "error"
    exec_current,   \* current, as an index of Calendar
    exec_trades,    \* result.trades
    exec_daily_pnl, \* result.daily_pnl, as the entries set
    exec_errors,    \* result.execution_errors, as the dates they are tagged with
    \* run_day of the straddle re-entry strategy
    strat_in,       \* lot_size, exit_mode
    strat_pc,       \* "enter" | "walk" | "after_loop" | "done"
    strat_t,        \* the minute the loop is at
    strat_leg,      \* the ce_* and pe_* variables, by side
    strat_locked,   \* locked_profit
    strat_trades,   \* result_trades
    \* CodegenBacktester.generate_code
    gen_max_retries,  \* max_retries
    gen_pc,  \* "loop" | "returned" | "raised"
    gen_attempt,  \* attempt
    gen_requests,  \* the requests posted, each with the response it got
    gen_code,  \* code, name of the loop body
    gen_ret, \* the (code, name) returned
    \* CodegenBacktester.execute: the generated code in the restricted namespace
    box_code,  \* code, as its top-level lines, whether it has def strategy(ctx), and the body lines
    box_pc,  \* "start" | "toplevel" | "strategy" | "done" | "error"
    box_line,  \* the line to run next
    box_st, \* the namespace: names of __builtins__, objects held, modules bound by import, effects done, exception raised
    \* DataLoader
    ldr_archive,  \* the files of DATA_DIR
    ldr_index_built,  \* self._index_built
    ldr_file_index,  \* self._file_index
    ldr_file_cache,  \* self._file_cache
    ldr_day_cache,  \* self._day_cache
    ldr_log, \* the calls made on the loader, each with what it returned and the files it read
    \* load_day calls of several workers on the loader above, after preload_range
    wk_range,  \* <<from_date, to_date>> of the preload_range that completed; <<>> before
    wk_pc,  \* per worker, where its load_day call is
    wk_local,  \* per worker, the locals of the call: trade_date, the position in the index, df, and the calls made
    wk_writes, \* the cache entries written and the files read, in order
    \* OptionsBacktester.run, repeated on the shared _data_loader above
    rp_cfg,  \* config
    rp_range,  \* <<from_date, to_date>>
    rp_results, \* the result of each run completed: trades, skipped_days, metrics
    \* a day loop over a range of days
    dy_job,  \* what the loop evaluates: the legs of a config or a generated procedure
    dy_data,  \* the rows of each day of the archive
    dy_range,  \* <<from_date, to_date>>
    dy_pc,  \* start, loop or done
    dy_current,  \* current
    dy_globals,  \* exec_globals, as far as the code binds it
    dy_out, \* trades and skipped_days of the result
    \* the cost model applied to one input
    cm_in,  \* config of the CostModel and the arguments of calculate
    cm_called,  \* the functions called so far
    cm_cost,  \* the TradeCost returned
    cm_rates, \* the rates returned
    \* the derived metrics of a result and their export
    mt_class,  \* the class of the result: BacktestResult or StrategyResult
    mt_trades,  \* result.trades
    mt_summary, \* the properties read and the summary of the exported dict, once exported
    \* ParameterOptimizer.sweep
    sw_in,  \* the base config and the params dicts as they were when sweep was called
    sw_config,  \* config, the base config object: its params field is the address of a dict
    sw_heap,  \* the params dicts, by address
    sw_param,  \* param_name
    sw_values,  \* values
    sw_pc,  \* loop, returned, raised
    sw_results  \* report.results

legVars == <<leg_in, leg_pc, leg_row, leg_st, leg_trade>>
runVars == <<run_cfg, run_pc, run_current, run_day, run_dte, run_i, run_trades, run_skipped>>
ctxVars == <<ctx_in, ctx_pc, ctx_positions, ctx_closed_positions, ctx_next_id, ctx_result>>
execVars == <<exec_pc, exec_current, exec_trades, exec_daily_pnl, exec_errors>>
stratVars == <<strat_in, strat_pc, strat_t, strat_leg, strat_locked, strat_trades>>
genVars == <<gen_max_retries, gen_pc, gen_attempt, gen_requests, gen_code, gen_ret>>
boxVars == <<box_code, box_pc, box_line, box_st>>
loaderVars == <<ldr_archive, ldr_index_built, ldr_file_index, ldr_file_cache, ldr_day_cache, ldr_log>>
workersVars == <<wk_range, wk_pc, wk_local, wk_writes>>
replayVars == <<rp_cfg, rp_range, rp_results>>
daysVars == <<dy_job, dy_data, dy_range, dy_pc, dy_current, dy_globals, dy_out>>
costVars == <<cm_in, cm_called, cm_cost, cm_rates>>
mtVars == <<mt_class, mt_trades, mt_summary>>
swVars == <<sw_in, sw_config, sw_heap, sw_param, sw_values, sw_pc, sw_results>>
vars == <<legVars, runVars, ctxVars, execVars, stratVars, genVars, boxVars, loaderVars, workersVars, replayVars, daysVars, costVars, mtVars, swVars>>
\* what an execute_leg step, a run step, and a call on the context, leave alone
notLeg == <<runVars, ctxVars, execVars, stratVars, genVars, boxVars, loaderVars, workersVars, replayVars, daysVars, costVars, mtVars, swVars>>
notRun == <<legVars, ctxVars, execVars, stratVars, genVars, boxVars, loaderVars, workersVars, replayVars, daysVars, costVars, mtVars, swVars>>
notCtx == <<legVars, runVars, execVars, stratVars, genVars, boxVars, loaderVars, workersVars, replayVars, daysVars, costVars, mtVars, swVars>>
notExec == <<legVars, runVars, stratVars, genVars, boxVars, loaderVars, workersVars, replayVars, daysVars, costVars, mtVars, swVars>>
notStrat == <<legVars, runVars, ctxVars, execVars, genVars, boxVars, loaderVars, workersVars, replayVars, daysVars, costVars, mtVars, swVars>>
notGen == <<legVars, runVars, ctxVars, execVars, stratVars, boxVars, loaderVars, workersVars, replayVars, daysVars, costVars, mtVars, swVars>>
notBox == <<legVars, runVars, ctxVars, execVars, stratVars, genVars, loaderVars, workersVars, replayVars, daysVars, costVars, mtVars, swVars>>
notLoader == <<legVars, runVars, ctxVars, execVars, stratVars, genVars, boxVars, workersVars, replayVars, daysVars, costVars, mtVars, swVars>>
notWorkers == <<legVars, runVars, ctxVars, execVars, stratVars, genVars, boxVars, replayVars, daysVars, costVars, mtVars, swVars>>
notReplay == <<legVars, runVars, ctxVars, execVars, stratVars, genVars, boxVars, workersVars, daysVars, costVars, mtVars, swVars>>
notDays == <<legVars, runVars, ctxVars, execVars, stratVars, genVars, boxVars, loaderVars, workersVars, replayVars, costVars, mtVars, swVars>>
notCost == <<legVars, runVars, ctxVars, execVars, stratVars, genVars, boxVars, loaderVars, workersVars, replayVars, daysVars, mtVars, swVars>>
notMetrics == <<legVars, runVars, ctxVars, execVars, stratVars, genVars, boxVars, loaderVars, workersVars, replayVars, daysVars, costVars, swVars>>
notSweep == <<legVars, runVars, ctxVars, execVars, stratVars, genVars, boxVars, loaderVars, workersVars, replayVars, daysVars, costVars, mtVars>>

\* config.entry_time = "09:20"; config.exit_time = "09:21" or "15:15"
EntryTime == [h |-> 9, m |-> 20]
ExitTimes == {[h |-> 9, m |-> 21], [h |-> 15, m |-> 15]}
\* <<leg.sl_pct, config.sl_pct>> and <<leg.target_pct, config.target_pct>>
SlPctCases == {<<NoneVal, 0>>, <<NoneVal, 30>>, <<25, 0>>}
TargetPctCases == {<<NoneVal, 0>>, <<NoneVal, 30>>, <<20, 0>>}
TradeDates == {20241001}
LotSizes == {25}

LegInputs ==
    { [action |-> a, sl_pct |-> sp[2], leg_sl_pct |-> sp[1], target_pct |-> tp[2],
       leg_target_pct |-> tp[1], sl_type |-> st, target_type |-> tt,
       entry_time |-> EntryTime, exit_time |-> xt, lots |-> n, lot_size |-> ls,
       strike |-> "ATM", option_type |-> "CE", dte |-> 0,
       cost_config |-> cc, trade_date |-> d] :
        a \in Actions, sp \in SlPctCases, tp \in TargetPctCases, st \in TriggerTypes,
        tt \in TriggerTypes, xt \in ExitTimes, n \in 1..MaxLots, ls \in LotSizes,
        cc \in CostConfigs, d \in TradeDates }

LegInit ==
    /\ leg_in \in LegInputs
    /\ leg_pc = "await"
    /\ leg_row = NoRow
    /\ leg_st = NoEntry
    /\ leg_trade = NoTrade

\* strike_data.empty
LegNoData ==
    /\ UNCHANGED notLeg
    /\ leg_pc = "await"
    /\ leg_trade' = SkipTrade(leg_in, "no_data", "No data for this strike/type")
    /\ leg_pc' = "skipped"
    /\ UNCHANGED <<leg_in, leg_row, leg_st>>

\* entry_candles.empty
LegNoEntryCandle ==
    /\ UNCHANGED notLeg
    /\ leg_pc = "await"
    /\ leg_trade' = SkipTrade(leg_in, "no_entry_candle", "No candle at entry_time")
    /\ leg_pc' = "skipped"
    /\ UNCHANGED <<leg_in, leg_row, leg_st>>

\* entry_row = entry_candles.iloc[0]; sl_price, target_price; exit defaults
LegEnter ==
    /\ UNCHANGED notLeg
    /\ leg_pc = "await"
    /\ \E row \in Candles :
        /\ TimeEQ(row.ts, leg_in.entry_time)
        /\ leg_row' = row
        /\ leg_st' = EntryState(leg_in, row)
    /\ leg_pc' = "open"
    /\ UNCHANGED <<leg_in, leg_trade>>

\* the scan over the rows at or after entry_ts
LegScan_FromEntry ==
    /\ UNCHANGED notLeg
    /\ leg_pc = "open"
    /\ \E candle \in Candles :
        /\ TimeGE(candle.ts, leg_row.ts)
        /\ leg_row' = candle
        /\ LET r == ScanCandle(leg_in, leg_st, candle)
           IN  IF r.hit
               THEN LET st == [leg_st EXCEPT !.exit_price = r.exit_price,
                                             !.exit_time = r.exit_time,
                                             !.exit_reason = r.exit_reason]
                    IN  /\ leg_st' = st
                        /\ leg_trade' = MakeTrade(leg_in, st)
                        /\ leg_pc' = "exited"
               ELSE UNCHANGED <<leg_st, leg_trade, leg_pc>>
    /\ UNCHANGED leg_in
\* one iteration over post_entry (rows in timestamp order, after entry_ts)
LegScan ==
    /\ UNCHANGED notLeg
    /\ leg_pc = "open"
    /\ \E candle \in Candles :
        /\ TimeGT(candle.ts, leg_row.ts)
        /\ leg_row' = candle
        /\ LET r == ScanCandle(leg_in, leg_st, candle)
           IN  IF r.hit
               THEN LET st == [leg_st EXCEPT !.exit_price = r.exit_price,
                                             !.exit_time = r.exit_time,
                                             !.exit_reason = r.exit_reason]
                    IN  /\ leg_st' = st
                        /\ leg_trade' = MakeTrade(leg_in, st)
                        /\ leg_pc' = "exited"
               ELSE UNCHANGED <<leg_st, leg_trade, leg_pc>>
    /\ UNCHANGED leg_in

\* post_entry is exhausted without a break
LegDataEnd ==
    /\ UNCHANGED notLeg
    /\ leg_pc = "open"
    /\ leg_trade' = MakeTrade(leg_in, leg_st)
    /\ leg_pc' = "exhausted"
    /\ UNCHANGED <<leg_in, leg_row, leg_st>>

LegNext == LegNoData \/ LegNoEntryCandle \/ LegEnter \/ LegScan \/ LegDataEnd

\* ------------------------------------------------------ OptionsBacktester.run
\* The dates of the replayed range, 2024-09-27 (a Friday) onwards.
Calendar == <<20240927, 20240928, 20240929, 20240930, 20241001, 20241002>>
\* to_date, as an index of Calendar (from_date is index 1)
MaxDay == 4
\* date.weekday() of Calendar[i]: Monday is 0
Weekday(i) == (i + 3) % 7
\* the expiry calendar: 2024-09-30
ExpiryCalendar == {4}

\* get_next_expiry and dte = (next_expiry - current).days if next_expiry else 0
Dte(current) ==
    LET future_expiries == {x \in ExpiryCalendar : x >= current}
    IN  IF future_expiries = {} THEN 0
        ELSE (CHOOSE x \in future_expiries : \A y \in future_expiries : x <= y) - current

\* The candle of every series at each minute.
CandleAt(t) ==
    IF t = [h |-> 9, m |-> 21]
    THEN [ts |-> t, open |-> 100, high |-> 130, low |-> 100, close |-> 130]
    ELSE IF t = [h |-> 15, m |-> 14]
    THEN [ts |-> t, open |-> 100, high |-> 100, low |-> 70, close |-> 70]
    ELSE IF t = [h |-> 15, m |-> 15]
    THEN [ts |-> t, open |-> 70, high |-> 100, low |-> 70, close |-> 100]
    ELSE [ts |-> t, open |-> 100, high |-> 100, low |-> 100, close |-> 100]
SeriesRows(strike_rel, type, minutes) == {Row(strike_rel, type, CandleAt(t)) : t \in minutes}
\* The minutes a series may hold: all, none at entry, none after 09:21, only the two
\* ends, none.
SeriesShapes ==
    {Times, Times \ {EntryTime}, {[h |-> 9, m |-> 20], [h |-> 9, m |-> 21]},
     {[h |-> 9, m |-> 20], [h |-> 15, m |-> 15]}, {}}
VixReadings == {NoneVal, 12, 25}
\* What the archive may hold for a date: rows, and the day's india_vix (NoneVal: NaN).
DayData ==
    { [rows |-> SeriesRows("ATM", "CALL", a) \cup SeriesRows("ATM", "PUT", b)
                \cup SeriesRows("ATM+5", "CALL", c),
       vix |-> v] :
        a \in SeriesShapes, b \in {Times, {}}, c \in {Times, {}}, v \in VixReadings }
NoDay == [rows |-> {}, vix |-> NoneVal]

Leg(action, strike, option_type) ==
    [action |-> action, strike |-> strike, option_type |-> option_type, lots |-> 1,
     sl_pct |-> NoneVal, target_pct |-> NoneVal]
BaseConfig ==
    [legs |-> <<>>, entry_time |-> EntryTime, exit_time |-> [h |-> 15, m |-> 15],
     sl_pct |-> 30, sl_type |-> "hard", target_pct |-> 0, target_type |-> "hard",
     lot_size |-> 25, vix_min |-> NoneVal, vix_max |-> NoneVal, dte_min |-> NoneVal,
     dte_max |-> NoneVal]
\* A short straddle; a hedged call with day filters; a config without legs.
RunConfigs ==
    { [BaseConfig EXCEPT !.legs = <<Leg("SELL", "ATM", "CE"), Leg("SELL", "ATM", "PE")>>],
      [BaseConfig EXCEPT !.legs = <<Leg("SELL", "ATM", "CE"), Leg("BUY", "ATM+5", "CE")>>,
                         !.sl_type = "close", !.vix_max = 20, !.dte_min = 1],
      BaseConfig }
\* self.cost_model = CostModel(cost_config or CostConfig())
RunCostConfig ==
    [slippage_pts |-> 50, brokerage_per_order |-> 200000, use_taxes |-> TRUE,
     custom_tax_rates |-> <<>>]

RunInit ==
    /\ run_cfg \in RunConfigs
    /\ run_pc = "start"
    /\ run_current = 1
    /\ run_day = NoDay
    /\ run_dte = 0
    /\ run_i = 0
    /\ run_trades = <<>>
    /\ run_skipped = <<>>

\* errors = config.validate(); raise ValueError; current = from_date
RunStart ==
    /\ UNCHANGED notRun
    /\ run_pc = "start"
    /\ run_pc' = IF validate(run_cfg) # {} THEN "error" ELSE "loop"
    /\ UNCHANGED <<run_cfg, run_current, run_day, run_dte, run_i, run_trades, run_skipped>>

\* if current.weekday() >= 5: current += timedelta(days=1); continue
RunWeekend ==
    /\ UNCHANGED notRun
    /\ run_pc = "loop"
    /\ run_current <= MaxDay
    /\ Weekday(run_current) >= 5
    /\ run_current' = run_current + 1
    /\ UNCHANGED <<run_cfg, run_pc, run_day, run_dte, run_i, run_trades, run_skipped>>

\* the DTE filters and the VIX filter: TRUE when the day is to be left out
DteFiltered(config, dte) ==
    \/ config.dte_min # NoneVal /\ dte < config.dte_min
    \/ config.dte_max # NoneVal /\ dte > config.dte_max
VixFiltered(config, day_data) ==
    /\ config.vix_min # NoneVal \/ config.vix_max # NoneVal
    /\ day_data.vix # NoneVal
    /\ \/ config.vix_min # NoneVal /\ config.vix_min # 0 /\ day_data.vix < config.vix_min
       \/ config.vix_max # NoneVal /\ config.vix_max # 0 /\ day_data.vix > config.vix_max

\* day_data = _data_loader.load_day(current); dte; the DTE and VIX filters
RunLoadDay ==
    /\ UNCHANGED notRun
    /\ run_pc = "loop"
    /\ run_current <= MaxDay
    /\ Weekday(run_current) < 5
    /\ \E day_data \in DayData :
        LET dte == Dte(run_current)
        IN  IF day_data.rows = {}
            THEN /\ run_current' = run_current + 1
                 /\ run_day' = NoDay
                 /\ UNCHANGED <<run_pc, run_dte>>
            ELSE IF DteFiltered(run_cfg, dte) \/ VixFiltered(run_cfg, day_data)
            THEN /\ run_current' = run_current + 1
                 /\ run_day' = day_data
                 /\ run_dte' = dte
                 /\ UNCHANGED run_pc
            ELSE /\ run_day' = day_data
                 /\ run_dte' = dte
                 /\ run_pc' = "boundary"
                 /\ UNCHANGED run_current
    /\ UNCHANGED <<run_cfg, run_i, run_trades, run_skipped>>

\* is_valid, reason = check_data_boundary(day_data, config)
RunBoundary ==
    /\ UNCHANGED notRun
    /\ run_pc = "boundary"
    /\ LET r == check_data_boundary(run_day, run_cfg)
       IN  IF ~r.valid
           THEN /\ run_skipped' = Append(run_skipped,
                        [date |-> Calendar[run_current], reason |-> r.reason, leg |-> 0])
                /\ run_current' = run_current + 1
                /\ run_pc' = "loop"
                /\ UNCHANGED run_i
           ELSE /\ run_pc' = "legs"
                /\ run_i' = 1
                /\ UNCHANGED <<run_skipped, run_current>>
    /\ UNCHANGED <<run_cfg, run_day, run_dte, run_trades>>

\* the loop over the legs leaving the day at the first skipped leg
RunLeg_StopsAtSkip ==
    /\ UNCHANGED notRun
    /\ run_pc = "legs"
    /\ LET trade == [execute_leg(run_day, run_cfg.legs[run_i], run_cfg,
                                 Calendar[run_current], run_dte, RunCostConfig)
                     EXCEPT !.leg_id = run_i]
       IN  /\ IF trade.skipped
              THEN /\ run_skipped' = Append(run_skipped,
                           [date |-> Calendar[run_current], reason |-> trade.skip_reason,
                            leg |-> run_i])
                   /\ UNCHANGED run_trades
              ELSE /\ run_trades' = Append(run_trades, trade)
                   /\ UNCHANGED run_skipped
           /\ IF run_i = Len(run_cfg.legs) \/ trade.skipped
              THEN /\ run_current' = run_current + 1
                   /\ run_pc' = "loop"
                   /\ UNCHANGED run_i
              ELSE /\ run_i' = run_i + 1
                   /\ UNCHANGED <<run_current, run_pc>>
    /\ UNCHANGED <<run_cfg, run_day, run_dte>>
\* one iteration of "for i, leg in enumerate(config.legs)"
RunLeg ==
    /\ UNCHANGED notRun
    /\ run_pc = "legs"
    /\ LET trade == [execute_leg(run_day, run_cfg.legs[run_i], run_cfg,
                                 Calendar[run_current], run_dte, RunCostConfig)
                     EXCEPT !.leg_id = run_i]
       IN  IF trade.skipped
           THEN /\ run_skipped' = Append(run_skipped,
                        [date |-> Calendar[run_current], reason |-> trade.skip_reason,
                         leg |-> run_i])
                /\ UNCHANGED run_trades
           ELSE /\ run_trades' = Append(run_trades, trade)
                /\ UNCHANGED run_skipped
    /\ IF run_i = Len(run_cfg.legs)
       THEN /\ run_current' = run_current + 1
            /\ run_pc' = "loop"
            /\ UNCHANGED run_i
       ELSE /\ run_i' = run_i + 1
            /\ UNCHANGED <<run_current, run_pc>>
    /\ UNCHANGED <<run_cfg, run_day, run_dte>>

\* while current <= to_date ends; return result
RunFinish ==
    /\ UNCHANGED notRun
    /\ run_pc = "loop"
    /\ run_current > MaxDay
    /\ run_pc' = "done"
    /\ UNCHANGED <<run_cfg, run_current, run_day, run_dte, run_i, run_trades, run_skipped>>

RunNext == RunStart \/ RunWeekend \/ RunLoadDay \/ RunBoundary \/ RunLeg \/ RunFinish

\* the legs of the day from the i-th on: the trades and the skip records they add
RECURSIVE ExecuteLegs(_, _, _, _, _)
ExecuteLegs(config, day_data, current, dte, i) ==
    IF i > Len(config.legs) THEN [trades |-> <<>>, skipped_days |-> <<>>]
    ELSE LET trade == [execute_leg(day_data, config.legs[i], config, Calendar[current],
                                   dte, RunCostConfig) EXCEPT !.leg_id = i]
             rest == ExecuteLegs(config, day_data, current, dte, i + 1)
         IN  IF trade.skipped
             THEN [rest EXCEPT !.skipped_days =
                        <<[date |-> Calendar[current], reason |-> trade.skip_reason,
                           leg |-> i]>> \o @]
             ELSE [rest EXCEPT !.trades = <<trade>> \o @]
\* one iteration of the while loop of run on a weekday, given what load_day returned
EvaluateDay(config, day_data, current) ==
    LET dte == Dte(current)
        r == check_data_boundary(day_data, config)
    IN  IF day_data.rows = {} \/ DteFiltered(config, dte) \/ VixFiltered(config, day_data)
        THEN [trades |-> <<>>, skipped_days |-> <<>>]
        ELSE IF ~r.valid
        THEN [trades |-> <<>>,
              skipped_days |-> <<[date |-> Calendar[current], reason |-> r.reason,
                                  leg |-> 0]>>]
        ELSE ExecuteLegs(config, day_data, current, dte, 1)

\* ------------------------------------------- StrategyContext as a state machine
\* the positions a strategy may open before the day is collected
MaxPositions == 2
\* A day whose ATM call series has every minute, or none after 09:21, and no other
\* series.
CtxDays ==
    { [rows |-> SeriesRows("ATM", "CALL", a), vix |-> 12] :
        a \in {Times, {[h |-> 9, m |-> 20], [h |-> 9, m |-> 21]}} }
CtxInputs ==
    { [day_data |-> d, trade_date |-> Calendar[1], dte |-> Dte(1), lot_size |-> 25,
       cost_config |-> RunCostConfig, entry_time |-> EntryTime,
       exit_time |-> [h |-> 15, m |-> 15]] : d \in CtxDays }
\* the contracts a strategy opens: the ATM call, and a put the day has no data for
CtxContracts == {<<"ATM", "CE">>, <<"ATM+5", "PE">>}
\* (price, at_time) of open_position: both omitted, a time, a price and a time, a
\* price of zero
OpenArgs == {<<NoneVal, NoTime>>, <<NoneVal, [h |-> 9, m |-> 21]>>,
             <<Paise(130), [h |-> 9, m |-> 21]>>, <<0, NoTime>>}
NoResult == [trades |-> <<>>, daily_pnl |-> 0]

\* StrategyContext.__init__
CtxInit ==
    /\ ctx_in \in CtxInputs
    /\ ctx_pc = "live"
    /\ ctx_positions = <<>>
    /\ ctx_closed_positions = <<>>
    /\ ctx_next_id = 1
    /\ ctx_result = NoResult

CtxLists == [positions |-> ctx_positions, closed_positions |-> ctx_closed_positions,
             ret |-> FALSE]
CtxState == [positions |-> ctx_positions, next_id |-> ctx_next_id, ret |-> 0]

\* StrategyContext.open_position
open_position ==
    /\ UNCHANGED notCtx
    /\ ctx_pc = "live"
    /\ ctx_next_id <= MaxPositions
    /\ \E contract \in CtxContracts, action \in Actions, args \in OpenArgs :
        LET st == OpenPosition(ctx_in, CtxState, contract[1], contract[2], action, 1,
                               args[1], args[2])
        IN  /\ ctx_positions' = st.positions
            /\ ctx_next_id' = st.next_id
    /\ UNCHANGED <<ctx_in, ctx_pc, ctx_closed_positions, ctx_result>>

\* StrategyContext.close_position
close_position ==
    /\ UNCHANGED notCtx
    /\ ctx_pc = "live"
    /\ \E position_id \in 1..MaxPositions, price \in {NoneVal, Paise(70)},
          at_time \in {NoTime, [h |-> 9, m |-> 21]} :
        LET st == ClosePosition(ctx_in, CtxLists, position_id, price, "manual", at_time)
        IN  /\ ctx_positions' = st.positions
            /\ ctx_closed_positions' = st.closed_positions
    /\ UNCHANGED <<ctx_in, ctx_pc, ctx_next_id, ctx_result>>

\* StrategyContext.close_all
close_all ==
    /\ UNCHANGED notCtx
    /\ ctx_pc = "live"
    /\ \E price_map \in {<<>>, <<Paise(70)>>}, at_time \in {NoTime} :
        LET open == SelectSeq(ctx_positions, LAMBDA pos : pos.is_open)
            open_ids == [k \in DOMAIN open |-> open[k].id]
            st == CloseEach(ctx_in, CtxLists, open_ids, "close_all", price_map, at_time)
        IN  /\ ctx_positions' = st.positions
            /\ ctx_closed_positions' = st.closed_positions
    /\ UNCHANGED <<ctx_in, ctx_pc, ctx_next_id, ctx_result>>

\* StrategyContext.update_prices
update_prices ==
    /\ UNCHANGED notCtx
    /\ ctx_pc = "live"
    /\ \E candle_time \in Times :
        ctx_positions' = UpdatePrices(ctx_in, ctx_positions, candle_time)
    /\ UNCHANGED <<ctx_in, ctx_pc, ctx_closed_positions, ctx_next_id, ctx_result>>

\* StrategyContext._collect_day_result, _force_close_open_positions included
collect_day_result ==
    /\ UNCHANGED notCtx
    /\ ctx_pc = "live"
    /\ LET st == CollectDayResult(ctx_in, CtxLists)
       IN  /\ ctx_positions' = st.positions
           /\ ctx_closed_positions' = st.closed_positions
           /\ ctx_result' = st.result
    /\ ctx_pc' = "collected"
    /\ UNCHANGED <<ctx_in, ctx_next_id>>

CtxNext == open_position \/ close_position \/ close_all \/ update_prices
           \/ collect_day_result

RECURSIVE SumGross(_)
SumGross(positions) ==
    IF positions = <<>> THEN 0 ELSE Head(positions).gross_pnl + SumGross(Tail(positions))
RECURSIVE SumUnrealized(_)
SumUnrealized(positions) ==
    IF positions = <<>> THEN 0
    ELSE (IF Head(positions).is_open THEN unrealized_pnl(Head(positions)) ELSE 0)
         + SumUnrealized(Tail(positions))

\* get_total_pnl with realized taken after costs
get_total_pnl_AfterCosts == SumNet(ctx_closed_positions) + SumUnrealized(ctx_positions)
\* StrategyContext.get_total_pnl
get_total_pnl ==
    LET realized == SumGross(ctx_closed_positions)
        unrealized == SumUnrealized(ctx_positions)
    IN  realized + unrealized
\* StrategyContext.get_realized_pnl
get_realized_pnl == SumGross(ctx_closed_positions)
\* StrategyContext.get_unrealized_pnl
get_unrealized_pnl == SumUnrealized(ctx_positions)

\* ------------------------------------- CodegenBacktester.execute as a state machine
\* execute(..., lot_size, entry_time, exit_time) with the day's rows: the context of a day
ExecContext(day_data, current) ==
    [day_data |-> day_data, trade_date |-> Calendar[current], dte |-> Dte(current),
     lot_size |-> 25, cost_config |-> RunCostConfig, entry_time |-> EntryTime,
     exit_time |-> [h |-> 15, m |-> 15]]

\* the positions the strategy procedure opens in a day of execute
MaxOpens == 1

ExecInit ==
    /\ exec_pc = "start"
    /\ exec_current = 1
    /\ exec_trades = <<>>
    /\ exec_daily_pnl = <<>>
    /\ exec_errors = <<>>

\* exec(code, exec_globals); strategy_fn = exec_globals.get("strategy"); current = from_date
ExecStart ==
    /\ UNCHANGED notExec
    /\ exec_pc = "start"
    /\ exec_pc' = "loop"
    /\ UNCHANGED <<exec_current, exec_trades, exec_daily_pnl, exec_errors, ctxVars>>

\* if current.weekday() >= 5: current += 1 day; continue
ExecWeekend ==
    /\ UNCHANGED notExec
    /\ exec_pc = "loop"
    /\ exec_current <= MaxDay
    /\ Weekday(exec_current) >= 5
    /\ exec_current' = exec_current + 1
    /\ UNCHANGED <<exec_pc, exec_trades, exec_daily_pnl, exec_errors, ctxVars>>

\* day_data = load_day(current); a day without rows is passed over; else
\* ctx = StrategyContext(...) and strategy_fn(ctx) is entered
ExecLoadDay ==
    /\ UNCHANGED notExec
    /\ exec_pc = "loop"
    /\ exec_current <= MaxDay
    /\ Weekday(exec_current) < 5
    /\ \E day_data \in CtxDays \cup {NoDay} :
        IF day_data.rows = {}
        THEN /\ exec_current' = exec_current + 1
             /\ UNCHANGED <<exec_pc, ctxVars>>
        ELSE /\ ctx_in' = ExecContext(day_data, exec_current)
             /\ ctx_pc' = "live"
             /\ ctx_positions' = <<>>
             /\ ctx_closed_positions' = <<>>
             /\ ctx_next_id' = 1
             /\ ctx_result' = NoResult
             /\ exec_pc' = "strategy"
             /\ UNCHANGED exec_current
    /\ UNCHANGED <<exec_trades, exec_daily_pnl, exec_errors>>

\* the strategy procedure calls ctx.open_position(strike, option_type, "SELL")
StrategyOpen ==
    /\ UNCHANGED notExec
    /\ exec_pc = "strategy"
    /\ ctx_next_id <= MaxOpens
    /\ \E contract \in CtxContracts :
        LET st == OpenPosition(ctx_in, CtxState, contract[1], contract[2], "SELL", 1,
                               NoneVal, NoTime)
        IN  /\ ctx_positions' = st.positions
            /\ ctx_next_id' = st.next_id
    /\ UNCHANGED <<ctx_in, ctx_pc, ctx_closed_positions, ctx_result, execVars>>

\* the strategy procedure calls ctx.update_prices(time(9, 21))
StrategyUpdate ==
    /\ UNCHANGED notExec
    /\ exec_pc = "strategy"
    /\ ctx_positions' = UpdatePrices(ctx_in, ctx_positions, [h |-> 9, m |-> 21])
    /\ UNCHANGED <<ctx_in, ctx_pc, ctx_closed_positions, ctx_next_id, ctx_result, execVars>>

\* the strategy procedure calls ctx.close_position(position_id, reason="manual",
\* at_time="09:21")
StrategyClose ==
    /\ UNCHANGED notExec
    /\ exec_pc = "strategy"
    /\ \E position_id \in 1..MaxOpens :
        LET st == ClosePosition(ctx_in, CtxLists, position_id, NoneVal, "manual",
                                [h |-> 9, m |-> 21])
        IN  /\ ctx_positions' = st.positions
            /\ ctx_closed_positions' = st.closed_positions
    /\ UNCHANGED <<ctx_in, ctx_pc, ctx_next_id, ctx_result, execVars>>

\* strategy_fn(ctx) returns
StrategyReturn ==
    /\ UNCHANGED notExec
    /\ exec_pc = "strategy"
    /\ exec_pc' = "collect"
    /\ UNCHANGED <<exec_current, exec_trades, exec_daily_pnl, exec_errors, ctxVars>>

\* strategy_fn(ctx) raises and nothing catches it
StrategyRaise_Uncaught ==
    /\ UNCHANGED notExec
    /\ exec_pc = "strategy"
    /\ exec_pc' = "error"
    /\ UNCHANGED <<exec_current, exec_trades, exec_daily_pnl, exec_errors, ctxVars>>

\* strategy_fn(ctx) raises: except Exception appends "[current] Execution error: ..."
StrategyRaise ==
    /\ UNCHANGED notExec
    /\ exec_pc = "strategy"
    /\ exec_errors' = Append(exec_errors, Calendar[exec_current])
    /\ exec_pc' = "collect"
    /\ UNCHANGED <<exec_current, exec_trades, exec_daily_pnl, ctxVars>>

\* day_result = ctx._collect_day_result(); the trades are folded; current += 1 day
ExecCollect ==
    /\ UNCHANGED notExec
    /\ exec_pc = "collect"
    /\ LET st == CollectDayResult(ctx_in, CtxLists)
       IN  /\ ctx_positions' = st.positions
           /\ ctx_closed_positions' = st.closed_positions
           /\ ctx_result' = st.result
           /\ IF st.result.trades # <<>>
              THEN /\ exec_trades' = exec_trades \o st.result.trades
                   /\ exec_daily_pnl' = Append(exec_daily_pnl,
                            [date |-> Calendar[exec_current], pnl |-> st.result.daily_pnl])
              ELSE UNCHANGED <<exec_trades, exec_daily_pnl>>
    /\ ctx_pc' = "collected"
    /\ exec_current' = exec_current + 1
    /\ exec_pc' = "loop"
    /\ UNCHANGED <<ctx_in, ctx_next_id, exec_errors>>

\* while current <= to_date ends; return result
ExecFinish ==
    /\ UNCHANGED notExec
    /\ exec_pc = "loop"
    /\ exec_current > MaxDay
    /\ exec_pc' = "done"
    /\ UNCHANGED <<exec_current, exec_trades, exec_daily_pnl, exec_errors, ctxVars>>

ExecNext ==
    \/ ExecStart \/ ExecWeekend \/ ExecLoadDay \/ StrategyOpen \/ StrategyUpdate
    \/ StrategyClose \/ StrategyReturn \/ StrategyRaise \/ ExecCollect \/ ExecFinish

\* ------------------------------------------------ run_day as a state machine
Sides == {"CE", "PE"}
StratInputs == [lot_size : {75}, exit_mode : {"hard", "close"}]

StratInit ==
    /\ strat_in \in StratInputs
    /\ strat_pc = "enter"
    /\ strat_t = EntryMinute
    /\ strat_leg = [side \in Sides |-> NoStratLeg]
    /\ strat_locked = NoneVal
    /\ strat_trades = <<>>

\* a cache is empty, has no entry minute, or an entry open is not positive: return []
StratNoData ==
    /\ UNCHANGED notStrat
    /\ strat_pc = "enter"
    /\ strat_pc' = "done"
    /\ UNCHANGED <<strat_in, strat_t, strat_leg, strat_locked, strat_trades>>

\* ce_entry and pe_entry are read; both first legs are open
StratEnter ==
    /\ UNCHANGED notStrat
    /\ strat_pc = "enter"
    /\ strat_leg' = [side \in Sides |-> StratLeg(Paise(100))]
    /\ strat_t' = EntryMinute + 1
    /\ strat_pc' = "walk"
    /\ UNCHANGED <<strat_in, strat_locked, strat_trades>>

\* one pass of "for hm in sorted_times" for a minute after entry_t and before exit_t
StratMinute ==
    /\ UNCHANGED notStrat
    /\ strat_pc = "walk"
    /\ strat_t <= MaxMinutes
    /\ \E ce \in StratCandles \cup {MissingCandle}, pe \in StratCandles \cup {MissingCandle} :
        /\ ce.present \/ pe.present
        /\ LET candle == [side \in Sides |-> IF side = "CE" THEN ce ELSE pe]
               cur == [side \in Sides |-> CurOf(candle[side], strat_leg[side])]
               qty == strat_in.lot_size
               total_pnl == SidePnl(strat_leg["CE"], cur["CE"], qty)
                            + SidePnl(strat_leg["PE"], cur["PE"], qty)
               locked_profit == IF total_pnl >= ProfitLockTrigger /\ strat_locked = NoneVal
                                THEN ProfitLockLevel ELSE strat_locked
           IN  IF total_pnl <= GlobalSl
               THEN /\ strat_leg' = [side \in Sides |->
                            CloseSide(strat_leg[side], cur[side], strat_t, "global_sl")]
                    /\ strat_pc' = "after_loop"
                    /\ UNCHANGED <<strat_t, strat_locked>>
               ELSE IF locked_profit # NoneVal /\ total_pnl <= locked_profit
               THEN /\ strat_leg' = [side \in Sides |->
                            CloseSide(strat_leg[side], cur[side], strat_t, "profit_lock")]
                    /\ strat_locked' = locked_profit
                    /\ strat_pc' = "after_loop"
                    /\ UNCHANGED strat_t
               ELSE /\ strat_leg' = [side \in Sides |->
                            SideMinute(strat_leg[side], candle[side], strat_t,
                                       strat_in.exit_mode)]
                    /\ strat_locked' = locked_profit
                    /\ strat_t' = strat_t + 1
                    /\ UNCHANGED strat_pc
    /\ UNCHANGED <<strat_in, strat_trades>>

\* the loop ends: a minute at or after exit_t (break), or no minute is left
StratLoopEnd ==
    /\ UNCHANGED notStrat
    /\ strat_pc = "walk"
    /\ strat_pc' = "after_loop"
    /\ UNCHANGED <<strat_in, strat_t, strat_leg, strat_locked, strat_trades>>

\* the time exit of what is still open, and the trade records; each side reads the
\* candle of exit_t, if its cache has one, and the last candle of its cache
StratTimeExit ==
    /\ UNCHANGED notStrat
    /\ strat_pc = "after_loop"
    /\ \E ce \in StratCandles \cup {MissingCandle}, pe \in StratCandles \cup {MissingCandle},
          last \in {StratCandle(100, 100, 100), StratCandle(150, 150, 150)} :
        LET close_price == [side \in Sides |->
                                ClosePrice(IF side = "CE" THEN ce ELSE pe, last)]
            closed == [side \in Sides |-> TimeExitSide(strat_leg[side], close_price[side])]
            ce_trades == SideTrades(closed["CE"], "CE", close_price["CE"])
            pe_trades == SideTrades(closed["PE"], "PE", close_price["PE"])
        IN  /\ strat_leg' = closed
            /\ strat_trades' = ce_trades.first \o pe_trades.first
                               \o ce_trades.second \o pe_trades.second
    /\ strat_pc' = "done"
    /\ UNCHANGED <<strat_in, strat_t, strat_locked>>

StratNext == StratNoData \/ StratEnter \/ StratMinute \/ StratLoopEnd \/ StratTimeExit

\* ------------------------------------------------------------- generate_code
\* max_retries of generate_code: 0..MaxRetries
MaxRetries == 3

\* lines of a response text; the fence of a markdown code block is three backquotes
Fence == "<fence>"
FencePython == "<fence>python"
DefLine == "def strategy(ctx):"
CandlesLine == "    df = ctx.get_candles(strike, side)"
OpenLine == "    ctx.open_position(strike, side, action)"
DocLine == "'''Short Straddle'''"
\* the texts Gemini answers with: complete, fenced or not; truncated; without
\* get_candles; without the procedure
GeminiTexts ==
    {<<FencePython, DocLine, DefLine, CandlesLine, OpenLine, Fence>>,
     <<DefLine, CandlesLine, OpenLine>>,
     <<FencePython, DefLine, CandlesLine>>,
     <<"'''", DefLine, OpenLine>>,
     <<Fence, CandlesLine, OpenLine, Fence>>}
StatusCodes == {200, 500}

\* "marker in code" of a text given by its lines
Contains(code, marker) ==
    \E k \in DOMAIN code :
        \/ marker = "def strategy" /\ code[k] = DefLine
        \/ marker = "get_candles" /\ code[k] = CandlesLine
        \/ marker = "open_position" /\ code[k] = OpenLine
\* the validation of generate_code
Validates(code) ==
    Contains(code, "open_position") /\ Contains(code, "get_candles") /\ Contains(code, "def strategy")

\* attempt > 0 always
ExtraInstruction_Always(attempt) == TRUE
\* _call_gemini: extra_instruction is set
ExtraInstruction(attempt) == attempt > 0

\* _call_gemini: the markdown code fences are removed
StripFences(text) ==
    LET a == IF text # <<>> /\ Head(text) = FencePython THEN Tail(text) ELSE text
        b == IF a # <<>> /\ Head(a) = Fence THEN Tail(a)
             ELSE IF a # <<>> /\ Head(a) = FencePython THEN <<"python">> \o Tail(a)
             ELSE a
    IN  IF b # <<>> /\ b[Len(b)] = Fence THEN SubSeq(b, 1, Len(b) - 1) ELSE b
\* _call_gemini: the name in the first docstring line of the first five lines
StrategyName(text) ==
    LET docs == {k \in 1..5 : k <= Len(text) /\ text[k] \in {DocLine, "'''"}}
    IN  IF docs # {} /\ text[FirstIndex(docs)] = DocLine THEN "Short Straddle"
        ELSE "AI Strategy"
\* _call_gemini on a 200 response
CallGemini(text) ==
    LET code == StripFences(text) IN [code |-> code, name |-> StrategyName(code)]

GenInit ==
    /\ gen_max_retries \in 0..MaxRetries
    /\ gen_pc = "loop"
    /\ gen_attempt = 0
    /\ gen_requests = <<>>
    /\ gen_code = Unbound
    /\ gen_ret = Unbound

\* the request of the attempt, with the response it gets
Request(status, text) ==
    [attempt |-> gen_attempt, extra_instruction |-> ExtraInstruction(gen_attempt),
     status |-> status, text |-> text]

\* an attempt whose response is not 200: _call_gemini raises RuntimeError, which
\* generate_code does not catch
AttemptApiError ==
    /\ gen_pc = "loop" /\ gen_attempt < gen_max_retries
    /\ \E text \in GeminiTexts :
        gen_requests' = Append(gen_requests, Request(500, text))
    /\ gen_pc' = "raised"
    /\ UNCHANGED <<gen_max_retries, gen_attempt, gen_code, gen_ret>>
    /\ UNCHANGED notGen

\* an attempt whose code passes the validation: returned
AttemptValid ==
    /\ gen_pc = "loop" /\ gen_attempt < gen_max_retries
    /\ \E text \in GeminiTexts :
        /\ Validates(CallGemini(text).code)
        /\ gen_requests' = Append(gen_requests, Request(200, text))
        /\ gen_code' = CallGemini(text)
        /\ gen_ret' = CallGemini(text)
    /\ gen_pc' = "returned"
    /\ UNCHANGED <<gen_max_retries, gen_attempt>>
    /\ UNCHANGED notGen

\* an attempt whose code fails the validation: the loop goes on
AttemptInvalid ==
    /\ gen_pc = "loop" /\ gen_attempt < gen_max_retries
    /\ \E text \in GeminiTexts :
        /\ ~Validates(CallGemini(text).code)
        /\ gen_requests' = Append(gen_requests, Request(200, text))
        /\ gen_code' = CallGemini(text)
    /\ gen_attempt' = gen_attempt + 1
    /\ UNCHANGED <<gen_max_retries, gen_pc, gen_ret>>
    /\ UNCHANGED notGen

\* after the loop: "return code, name", an UnboundLocalError when the loop body
\* never ran
AttemptsExhausted ==
    /\ gen_pc = "loop" /\ gen_attempt >= gen_max_retries
    /\ IF gen_code = Unbound
       THEN gen_pc' = "raised" /\ UNCHANGED gen_ret
       ELSE gen_pc' = "returned" /\ gen_ret' = gen_code
    /\ UNCHANGED <<gen_max_retries, gen_attempt, gen_requests, gen_code>>
    /\ UNCHANGED notGen

GenNext == AttemptApiError \/ AttemptValid \/ AttemptInvalid \/ AttemptsExhausted

\* ------------------------------------- generated code in the restricted namespace
\* Lines of the body of strategy(ctx): 0..MaxBody
MaxBody == 3

\* A simple statement; sep is the white space after its first keyword.
Stmt(kind, sep, arg) == [kind |-> kind, sep |-> sep, arg |-> arg]
ImportOs == Stmt("import", " ", "os")                \* import os
ImportTabOs == Stmt("import", "\t", "os")            \* import<TAB>os
FromOs == Stmt("from", " ", "os")                    \* from os import path
AssignX == Stmt("assign", " ", "x")                  \* x = 1
IfTrue == Stmt("if", " ", "True")                    \* if True: <statement on the same line>
CallImport == Stmt("call", "", "__import__")         \* os = __import__("os")
CallOpen == Stmt("call", "", "open")                 \* open(path, "w")
MathSqrt == Stmt("attr", "", "math")                 \* math.sqrt(2)
\* b = ctx.get_candles.__globals__["__builtins__"]
GetBuiltins == Stmt("globals", "", "__builtins__")
\* __builtins__["__import__"] = b["__import__"]
InstallImport == Stmt("install", "", "__import__")
\* b["open"](path, "w")
UseOpen == Stmt("use", "", "open")
\* ctx.get_candles("ATM", "CE").to_csv(path)
ToCsv == Stmt("method", "", "to_csv")

\* A line: the simple statements on it, separated by ";" or after "if True:".
TopLines == {<<ImportOs>>, <<FromOs>>, <<AssignX, ImportOs>>, <<ImportTabOs>>, <<AssignX>>}
BodyLines ==
    {<<ImportOs>>, <<IfTrue, ImportOs>>, <<CallImport>>, <<CallOpen>>, <<GetBuiltins>>,
     <<InstallImport>>, <<UseOpen>>, <<ToCsv>>, <<MathSqrt>>}

\* stripped.startswith("import ") or stripped.startswith("from ")
IsImportLine(line) ==
    Head(line).kind \in {"import", "from"} /\ Head(line).sep = " "
\* _preprocess_code on a list of lines
RECURSIVE StripImports(_)
StripImports(lines) ==
    IF lines = <<>> THEN <<>>
    ELSE IF IsImportLine(Head(lines)) THEN StripImports(Tail(lines))
    ELSE <<Head(lines)>> \o StripImports(Tail(lines))
_preprocess_code(code) ==
    [top |-> StripImports(code.top), def |-> code.def, body |-> StripImports(code.body)]

\* allowed_builtins
allowed_builtins ==
    {"abs", "min", "max", "round", "len", "range", "enumerate", "zip", "sorted", "reversed",
     "sum", "any", "all", "int", "float", "str", "bool", "list", "dict", "tuple", "set",
     "isinstance", "type", "print", "True", "False", "None", "map", "filter"}
\* exec_globals besides __builtins__
Injected == {"math", "time", "date", "timedelta"}
\* exec_globals, with nothing imported, done or raised yet
Namespace ==
    [builtins |-> allowed_builtins, held |-> Injected, modules |-> {}, effects |-> {},
     raised |-> "none"]
Raise(st, exc) == [st EXCEPT !.raised = exc]

\* one simple statement in the namespace
ExecStmt(st, stmt) ==
    CASE stmt.kind \in {"import", "from"} ->
            \* IMPORT_NAME looks __import__ up in the frame's builtins
            IF "__import__" \in st.builtins
            THEN [st EXCEPT !.modules = @ \cup {stmt.arg}, !.held = @ \cup {stmt.arg}]
            ELSE Raise(st, "ImportError")
      [] stmt.kind = "call" ->
            IF stmt.arg \notin st.builtins THEN Raise(st, "NameError")
            ELSE IF stmt.arg = "open" THEN [st EXCEPT !.effects = @ \cup {"file"}]
            ELSE [st EXCEPT !.held = @ \cup {"os"}]
      [] stmt.kind = "attr" ->
            IF stmt.arg \in st.held THEN st ELSE Raise(st, "NameError")
      [] stmt.kind = "globals" ->
            \* the module globals of engine.strategy_sdk, through a method of ctx
            IF "ctx" \in st.held THEN [st EXCEPT !.held = @ \cup {"builtins"}]
            ELSE Raise(st, "NameError")
      [] stmt.kind = "install" ->
            IF "builtins" \in st.held THEN [st EXCEPT !.builtins = @ \cup {stmt.arg}]
            ELSE Raise(st, "NameError")
      [] stmt.kind = "use" ->
            IF "builtins" \in st.held THEN [st EXCEPT !.effects = @ \cup {"file"}]
            ELSE Raise(st, "NameError")
      [] stmt.kind = "method" ->
            \* get_candles returns a pandas DataFrame
            IF "ctx" \in st.held THEN [st EXCEPT !.effects = @ \cup {"file"}]
            ELSE Raise(st, "NameError")
      [] OTHER -> st
\* the statements of a line in turn, up to the first that raises
RECURSIVE ExecLine(_, _)
ExecLine(st, line) ==
    IF line = <<>> \/ st.raised # "none" THEN st
    ELSE ExecLine(ExecStmt(st, Head(line)), Tail(line))

\* the bodies of at most n lines
RECURSIVE Bodies(_)
Bodies(n) ==
    IF n = 0 THEN {<<>>}
    ELSE Bodies(n - 1) \cup {Append(b, l) : b \in {c \in Bodies(n - 1) : Len(c) = n - 1},
                                          l \in BodyLines}

BoxInit ==
    /\ box_code \in [top : {<<>>} \cup {<<l>> : l \in TopLines}, def : BOOLEAN,
                     body : Bodies(MaxBody)]
    /\ box_code.def \/ box_code.body = <<>>
    /\ box_pc = "start"
    /\ box_line = 1
    /\ box_st = Namespace

\* execute, lines 311-341: the imports are stripped and the code compiled; a
\* procedure left without a body is a SyntaxError
BoxCompile ==
    /\ box_pc = "start"
    /\ box_code' = _preprocess_code(box_code)
    /\ IF box_code.def /\ box_code'.body = <<>>
       THEN box_pc' = "error" /\ box_st' = Raise(box_st, "SyntaxError")
       ELSE box_pc' = "toplevel" /\ UNCHANGED box_st
    /\ UNCHANGED box_line
    /\ UNCHANGED notBox

\* exec(code, exec_globals): a top-level line; an exception is "Code compilation failed"
BoxTopLevel ==
    /\ box_pc = "toplevel" /\ box_line <= Len(box_code.top)
    /\ box_st' = ExecLine(box_st, box_code.top[box_line])
    /\ IF box_st'.raised # "none"
       THEN box_pc' = "error" /\ UNCHANGED box_line
       ELSE box_line' = box_line + 1 /\ UNCHANGED box_pc
    /\ UNCHANGED box_code
    /\ UNCHANGED notBox

\* strategy_fn = exec_globals.get("strategy"), and the call strategy_fn(ctx) of a day
BoxCall ==
    /\ box_pc = "toplevel" /\ box_line > Len(box_code.top)
    /\ IF box_code.def
       THEN /\ box_pc' = "strategy"
            /\ box_st' = [box_st EXCEPT !.held = @ \cup {"strategy", "ctx"}]
       ELSE box_pc' = "error" /\ UNCHANGED box_st
    /\ box_line' = 1
    /\ UNCHANGED box_code
    /\ UNCHANGED notBox

\* a line of the body; an exception ends the day as an execution error
BoxBody ==
    /\ box_pc = "strategy" /\ box_line <= Len(box_code.body)
    /\ box_st' = ExecLine(box_st, box_code.body[box_line])
    /\ IF box_st'.raised # "none"
       THEN box_pc' = "done" /\ UNCHANGED box_line
       ELSE box_line' = box_line + 1 /\ UNCHANGED box_pc
    /\ UNCHANGED box_code
    /\ UNCHANGED notBox

\* the procedure returns
BoxReturn ==
    /\ box_pc = "strategy" /\ box_line > Len(box_code.body)
    /\ box_pc' = "done"
    /\ UNCHANGED <<box_code, box_line, box_st>>
    /\ UNCHANGED notBox

BoxNext == BoxCompile \/ BoxTopLevel \/ BoxCall \/ BoxBody \/ BoxReturn

\* ---------------------------------------------------------------- DataLoader
\* Dates of the archive: 1..MaxLoaderDay
MaxLoaderDay == 3
\* Calls on one loader: at most MaxCalls
MaxCalls == 3
LoaderDays == 1..MaxLoaderDay
\* IST_OFFSET, in minutes
IST_OFFSET == 330
MinutesPerDay == 1440

\* A row of a file: its timestamp as written (day, minute of the day) and a price.
RawRow(day, minute, open) == [day |-> day, minute |-> minute, open |-> open]
\* A file NIFTY_Options_<from>_<to>.csv; numeric timestamps are UTC seconds, the
\* others are written in IST. A stem that does not parse has no from/to.
FileA ==
    [name |-> "NIFTY_Options_1_2", from |-> 1, to |-> 2, numeric |-> TRUE,
     rows |-> <<RawRow(1, 231, 100), RawRow(1, 230, 130), RawRow(2, 1200, 70)>>]
FileB ==
    [name |-> "NIFTY_Options_2_3", from |-> 2, to |-> 3, numeric |-> FALSE,
     rows |-> <<RawRow(2, 561, 100), RawRow(2, 560, 70)>>]
FileC ==
    [name |-> "NIFTY_Options_notes", from |-> NoneVal, to |-> NoneVal, numeric |-> FALSE,
     rows |-> <<>>]
Archives == {{FileA, FileB, FileC}, {FileB}, {FileA}}

\* the files of the archive, ascending in file_from
RECURSIVE SortByFrom(_)
SortByFrom(files) ==
    IF files = {} THEN <<>>
    ELSE LET f == CHOOSE g \in files : \A h \in files : g.from <= h.from
         IN  <<f>> \o SortByFrom(files \ {f})
\* _build_index: the files whose stem parses, sorted
BuildIndex(archive) == SortByFrom({f \in archive : f.from # NoneVal /\ f.to # NoneVal})

\* _load_file: the timestamp in IST, and the date column
ParseRow(row, numeric) ==
    LET m == IF numeric THEN row.minute + IST_OFFSET ELSE row.minute
        day == row.day + m \div MinutesPerDay
    IN  [timestamp |-> [day |-> day, minute |-> m % MinutesPerDay], date |-> day,
         open |-> row.open]
ParseFile(f) == [k \in DOMAIN f.rows |-> ParseRow(f.rows[k], f.numeric)]

\* a dict as a sequence of <<key, value>> pairs
HasKey(dict, key) == \E k \in DOMAIN dict : dict[k][1] = key
Lookup(dict, key) == dict[CHOOSE k \in DOMAIN dict : dict[k][1] = key][2]

\* _load_file that reads the file each time
LoadFile_NoCache(st, f) ==
    [st EXCEPT !.file_cache = IF HasKey(st.file_cache, f.name) THEN @
                              ELSE Append(@, <<f.name, ParseFile(f)>>),
               !.reads = Append(@, f.name), !.df = ParseFile(f)]
\* _load_file: st.df is the frame returned
LoadFile(st, f) ==
    IF HasKey(st.file_cache, f.name)
    THEN [st EXCEPT !.df = Lookup(st.file_cache, f.name)]
    ELSE [st EXCEPT !.file_cache = Append(@, <<f.name, ParseFile(f)>>),
                    !.reads = Append(@, f.name), !.df = ParseFile(f)]

\* df[df["date"] == trade_date]
RECURSIVE RowsOn(_, _)
RowsOn(df, trade_date) ==
    IF df = <<>> THEN <<>>
    ELSE (IF Head(df).date = trade_date THEN <<Head(df)>> ELSE <<>>)
         \o RowsOn(Tail(df), trade_date)
TsBefore(a, b) == a.day < b.day \/ (a.day = b.day /\ a.minute <= b.minute)
\* sort_values("timestamp").reset_index(drop=True)
RECURSIVE SortRows(_)
SortRows(rows) ==
    IF rows = <<>> THEN <<>>
    ELSE LET k == CHOOSE i \in DOMAIN rows :
                    \A j \in DOMAIN rows : TsBefore(rows[i].timestamp, rows[j].timestamp)
         IN  <<rows[k]>> \o SortRows(RemoveAt(rows, k))

\* the attributes of the loader, with the reads and the return value of a call
LoaderState ==
    [index_built |-> ldr_index_built, file_index |-> ldr_file_index,
     file_cache |-> ldr_file_cache, day_cache |-> ldr_day_cache,
     reads |-> <<>>, df |-> <<>>, ret |-> <<>>]
\* the index is built on the first call that needs it
WithIndex(st) ==
    IF st.index_built THEN st
    ELSE [st EXCEPT !.file_index = BuildIndex(ldr_archive), !.index_built = TRUE]

\* load_day, the loop over the index from its k-th file; ret <<>> is None
RECURSIVE ScanIndex(_, _, _)
ScanIndex(st, k, trade_date) ==
    IF k > Len(st.file_index) THEN [st EXCEPT !.ret = <<>>]
    ELSE LET f == st.file_index[k]
         IN  IF f.from <= trade_date /\ trade_date <= f.to
             THEN LET loaded == LoadFile(st, f)
                      day_df == RowsOn(loaded.df, trade_date)
                  IN  IF day_df # <<>>
                      THEN [loaded EXCEPT
                                !.day_cache = Append(@, <<trade_date, SortRows(day_df)>>),
                                !.ret = SortRows(day_df)]
                      ELSE ScanIndex(loaded, k + 1, trade_date)
             ELSE ScanIndex(st, k + 1, trade_date)
\* load_day whose day cache answers with a slice whatever the date asked for
LoadDay_AnyCachedDay(st, trade_date) ==
    LET indexed == WithIndex(st)
    IN  IF indexed.day_cache # <<>>
        THEN [indexed EXCEPT !.ret = indexed.day_cache[1][2]]
        ELSE ScanIndex(indexed, 1, trade_date)
\* load_day: st.ret is the frame returned
LoadDay(st, trade_date) ==
    LET indexed == WithIndex(st)
    IN  IF HasKey(indexed.day_cache, trade_date)
        THEN [indexed EXCEPT !.ret = Lookup(indexed.day_cache, trade_date)]
        ELSE ScanIndex(indexed, 1, trade_date)

\* preload_range loading only the files that start inside the range
PreloadFrom_StartsInRange(st, k, from_date, to_date) ==
    IF k > Len(st.file_index) THEN st
    ELSE LET f == st.file_index[k]
             rest == [st EXCEPT !.file_index = SubSeq(@, k + 1, Len(@))]
             done == IF f.from >= from_date /\ f.from <= to_date
                     THEN LoadFile(rest, f) ELSE rest
             \* the files after the k-th, one at a time
             RECURSIVE Go(_)
             Go(t) == IF t.file_index = <<>> THEN t
                      ELSE LET g == Head(t.file_index)
                               u == [t EXCEPT !.file_index = Tail(@)]
                           IN  Go(IF g.from >= from_date /\ g.from <= to_date
                                  THEN LoadFile(u, g) ELSE u)
         IN  [Go(done) EXCEPT !.file_index = st.file_index]
\* preload_range, the loop over the index from its k-th file
RECURSIVE PreloadFrom(_, _, _, _)
PreloadFrom(st, k, from_date, to_date) ==
    IF k > Len(st.file_index) THEN st
    ELSE LET f == st.file_index[k]
         IN  IF f.to >= from_date /\ f.from <= to_date
             THEN PreloadFrom(LoadFile(st, f), k + 1, from_date, to_date)
             ELSE PreloadFrom(st, k + 1, from_date, to_date)
PreloadRange(st, from_date, to_date) == PreloadFrom(WithIndex(st), 1, from_date, to_date)

LoaderInit ==
    /\ ldr_archive \in Archives
    /\ ldr_index_built = FALSE
    /\ ldr_file_index = <<>>
    /\ ldr_file_cache = <<>>
    /\ ldr_day_cache = <<>>
    /\ ldr_log = <<>>

\* the loader after a call, and the call in the log
Called(op, args, st) ==
    /\ ldr_index_built' = st.index_built
    /\ ldr_file_index' = st.file_index
    /\ ldr_file_cache' = st.file_cache
    /\ ldr_day_cache' = st.day_cache
    /\ ldr_log' = Append(ldr_log, [op |-> op, args |-> args, ret |-> st.ret,
                                   reads |-> st.reads])
    /\ UNCHANGED ldr_archive

load_day ==
    /\ Len(ldr_log) < MaxCalls
    /\ \E trade_date \in LoaderDays :
        Called("load_day", <<trade_date>>, LoadDay(LoaderState, trade_date))
    /\ UNCHANGED notLoader

preload_range ==
    /\ Len(ldr_log) < MaxCalls
    /\ \E from_date \in LoaderDays, to_date \in LoaderDays :
        /\ from_date <= to_date
        /\ Called("preload_range", <<from_date, to_date>>,
                  PreloadRange(LoaderState, from_date, to_date))
    /\ UNCHANGED notLoader

\* clear_cache that keeps the loaded files
clear_cache_FilesKept ==
    /\ Len(ldr_log) < MaxCalls
    /\ Called("clear_cache", <<>>, [LoaderState EXCEPT !.day_cache = <<>>])
    /\ UNCHANGED notLoader

clear_cache ==
    /\ Len(ldr_log) < MaxCalls
    /\ Called("clear_cache", <<>>,
              [LoaderState EXCEPT !.file_cache = <<>>, !.day_cache = <<>>])
    /\ UNCHANGED notLoader

LoaderNext == load_day \/ preload_range \/ clear_cache

\* ------------------------------------------- load_day from several workers
\* Workers: 1..MaxWorkers, each making at most MaxLoads load_day calls
MaxWorkers == 2
MaxLoads == 1
Workers == 1..MaxWorkers
NoLocals == [trade_date |-> 1, k |-> 1, df |-> <<>>, calls |-> 0]

\* dict[key] = value
Put(dict, key, value) ==
    IF HasKey(dict, key)
    THEN [k \in DOMAIN dict |-> IF dict[k][1] = key THEN <<key, value>> ELSE dict[k]]
    ELSE Append(dict, <<key, value>>)
\* a write of a cache entry, or the read of a file, by a worker loading a date
Touch(kind, key, w) ==
    Append(wk_writes, [kind |-> kind, key |-> key, worker |-> w,
                       trade_date |-> wk_local[w].trade_date])
\* the step of a worker: its pc and locals
Goes(w, pc, locals) ==
    /\ wk_pc' = [wk_pc EXCEPT ![w] = pc]
    /\ wk_local' = [wk_local EXCEPT ![w] = locals]
loaderCaches == <<ldr_file_cache, ldr_day_cache>>
loaderIndex == <<ldr_archive, ldr_index_built, ldr_file_index, ldr_log>>

WorkersInit ==
    /\ ldr_archive \in Archives
    /\ ldr_index_built = FALSE
    /\ ldr_file_index = <<>>
    /\ ldr_file_cache = <<>>
    /\ ldr_day_cache = <<>>
    /\ ldr_log = <<>>
    /\ wk_range = <<>>
    /\ wk_pc = [w \in Workers |-> "idle"]
    /\ wk_local = [w \in Workers |-> NoLocals]
    /\ wk_writes = <<>>

\* preload_range(from_date, to_date), completed before any worker starts
WkPreload ==
    /\ wk_range = <<>>
    /\ \E from_date \in LoaderDays, to_date \in LoaderDays :
        /\ from_date <= to_date
        /\ wk_range' = <<from_date, to_date>>
        /\ LET st == PreloadRange(LoaderState, from_date, to_date)
           IN  /\ ldr_index_built' = st.index_built
               /\ ldr_file_index' = st.file_index
               /\ ldr_file_cache' = st.file_cache
    /\ UNCHANGED <<ldr_archive, ldr_day_cache, ldr_log, wk_pc, wk_local, wk_writes>>
    /\ UNCHANGED notWorkers

\* load_day(trade_date) is called; the index is built already
WkCall ==
    /\ wk_range # <<>>
    /\ \E w \in Workers, trade_date \in LoaderDays :
        /\ wk_pc[w] = "idle" /\ wk_local[w].calls < MaxLoads
        /\ Goes(w, "check_day", [trade_date |-> trade_date, k |-> 1, df |-> <<>>,
                                 calls |-> wk_local[w].calls + 1])
    /\ UNCHANGED <<loaderCaches, loaderIndex, wk_range, wk_writes>>
    /\ UNCHANGED notWorkers

\* if cache_key in self._day_cache: return self._day_cache[cache_key]
WkCheckDay ==
    /\ \E w \in Workers :
        /\ wk_pc[w] = "check_day"
        /\ IF HasKey(ldr_day_cache, wk_local[w].trade_date)
           THEN Goes(w, "idle", wk_local[w])
           ELSE Goes(w, "scan", wk_local[w])
    /\ UNCHANGED <<loaderCaches, loaderIndex, wk_range, wk_writes>>
    /\ UNCHANGED notWorkers

\* for file_from, file_to, f in self._file_index: if file_from <= target_ts <= file_to
WkScan ==
    /\ \E w \in Workers :
        LET l == wk_local[w] IN
        /\ wk_pc[w] = "scan"
        /\ IF l.k > Len(ldr_file_index) THEN Goes(w, "idle", l)
           ELSE IF ldr_file_index[l.k].from <= l.trade_date
                   /\ l.trade_date <= ldr_file_index[l.k].to
           THEN Goes(w, "check_file", l)
           ELSE Goes(w, "scan", [l EXCEPT !.k = @ + 1])
    /\ UNCHANGED <<loaderCaches, loaderIndex, wk_range, wk_writes>>
    /\ UNCHANGED notWorkers

\* _load_file: if key in self._file_cache: return self._file_cache[key]
WkCheckFile ==
    /\ \E w \in Workers :
        LET l == wk_local[w]
            f == ldr_file_index[l.k] IN
        /\ wk_pc[w] = "check_file"
        /\ IF HasKey(ldr_file_cache, f.name)
           THEN Goes(w, "slice", [l EXCEPT !.df = Lookup(ldr_file_cache, f.name)])
           ELSE Goes(w, "read", l)
    /\ UNCHANGED <<loaderCaches, loaderIndex, wk_range, wk_writes>>
    /\ UNCHANGED notWorkers

\* _load_file: df = pd.read_csv(f), and the timestamp and date columns
WkRead ==
    /\ \E w \in Workers :
        LET l == wk_local[w]
            f == ldr_file_index[l.k] IN
        /\ wk_pc[w] = "read"
        /\ Goes(w, "store_file", [l EXCEPT !.df = ParseFile(f)])
        /\ wk_writes' = Touch("read", f.name, w)
    /\ UNCHANGED <<loaderCaches, loaderIndex, wk_range>>
    /\ UNCHANGED notWorkers

\* _load_file: self._file_cache[key] = df
WkStoreFile ==
    /\ \E w \in Workers :
        LET l == wk_local[w]
            f == ldr_file_index[l.k] IN
        /\ wk_pc[w] = "store_file"
        /\ ldr_file_cache' = Put(ldr_file_cache, f.name, l.df)
        /\ Goes(w, "slice", l)
        /\ wk_writes' = Touch("file", f.name, w)
    /\ UNCHANGED <<ldr_day_cache, loaderIndex, wk_range>>
    /\ UNCHANGED notWorkers

\* day_df = df[df["date"] == trade_date].copy(); if not day_df.empty
WkSlice ==
    /\ \E w \in Workers :
        LET l == wk_local[w]
            day_df == RowsOn(l.df, l.trade_date) IN
        /\ wk_pc[w] = "slice"
        /\ IF day_df # <<>>
           THEN Goes(w, "store_day", [l EXCEPT !.df = SortRows(day_df)])
           ELSE Goes(w, "scan", [l EXCEPT !.k = @ + 1, !.df = <<>>])
    /\ UNCHANGED <<loaderCaches, loaderIndex, wk_range, wk_writes>>
    /\ UNCHANGED notWorkers

\* self._day_cache[cache_key] = day_df; return day_df
WkStoreDay ==
    /\ \E w \in Workers :
        LET l == wk_local[w] IN
        /\ wk_pc[w] = "store_day"
        /\ ldr_day_cache' = Put(ldr_day_cache, l.trade_date, l.df)
        /\ Goes(w, "idle", l)
        /\ wk_writes' = Touch("day", l.trade_date, w)
    /\ UNCHANGED <<ldr_file_cache, loaderIndex, wk_range>>
    /\ UNCHANGED notWorkers

WorkersNext ==
    \/ WkPreload \/ WkCall \/ WkCheckDay \/ WkScan \/ WkCheckFile \/ WkRead
    \/ WkStoreFile \/ WkSlice \/ WkStoreDay

\* ------------------------------------- OptionsBacktester.run on the DataLoader
\* Runs on one loader: at most MaxRuns, and at most MaxTouches other uses of it
MaxRuns == 2
MaxTouches == 2
\* the date of a day of the archive, as an index of Calendar: day 1 is 2024-09-30
ReplayDate(d) == ((d + 2) % Len(Calendar)) + 1
\* the frame load_day returned as day_data: the archive holds ATM CALL rows, each
\* with one price; None has no rows
AsDayData(ret) ==
    [rows |-> {Row("ATM", "CALL",
                   [ts |-> [h |-> ret[k].timestamp.minute \div 60,
                            m |-> ret[k].timestamp.minute % 60],
                    open |-> ret[k].open, high |-> ret[k].open, low |-> ret[k].open,
                    close |-> ret[k].open]) : k \in DOMAIN ret},
     vix |-> NoneVal]
\* A short call and a short straddle leaving at 09:21, and a short call leaving at 15:15.
\* Then configs validate rejects: no legs, an action HOLD, a strike label OTM+1.
ReplayConfigs ==
    { [BaseConfig EXCEPT !.legs = <<Leg("SELL", "ATM", "CE")>>,
                         !.exit_time = [h |-> 9, m |-> 21]],
      [BaseConfig EXCEPT !.legs = <<Leg("SELL", "ATM", "CE"), Leg("SELL", "ATM", "PE")>>,
                         !.exit_time = [h |-> 9, m |-> 21]],
      [BaseConfig EXCEPT !.legs = <<Leg("SELL", "ATM", "CE")>>],
      [BaseConfig EXCEPT !.exit_time = [h |-> 9, m |-> 21]],
      [BaseConfig EXCEPT !.legs = <<Leg("SELL", "ATM", "CE"), Leg("HOLD", "ATM", "CE")>>,
                         !.exit_time = [h |-> 9, m |-> 21]],
      [BaseConfig EXCEPT !.legs = <<Leg("SELL", "OTM+1", "CE")>>,
                         !.exit_time = [h |-> 9, m |-> 21]] }

\* total_trades and total_pnl of a BacktestResult
RECURSIVE TotalPnl(_)
TotalPnl(trades) ==
    IF trades = <<>> THEN 0 ELSE Head(trades).net_pnl + TotalPnl(Tail(trades))
Metrics(trades) == [total_trades |-> Len(trades), total_pnl |-> TotalPnl(trades)]

\* the while loop of run from day d on, on the loader in state st
RECURSIVE ReplayDays(_, _, _, _)
ReplayDays(st, config, d, to_date) ==
    IF d > to_date THEN [st |-> st, trades |-> <<>>, skipped_days |-> <<>>]
    ELSE IF Weekday(ReplayDate(d)) >= 5 THEN ReplayDays(st, config, d + 1, to_date)
    ELSE LET loaded == LoadDay(st, d)
             day == EvaluateDay(config, AsDayData(loaded.ret), ReplayDate(d))
             rest == ReplayDays(loaded, config, d + 1, to_date)
         IN  [rest EXCEPT !.trades = day.trades \o @,
                          !.skipped_days = day.skipped_days \o @]
\* run(config, from_date, to_date) from preload_range on
ReplayRange(st, config, from_date, to_date) ==
    ReplayDays(PreloadRange(st, from_date, to_date), config, from_date, to_date)

ReplayInit ==
    /\ ldr_archive \in Archives
    /\ ldr_index_built = FALSE
    /\ ldr_file_index = <<>>
    /\ ldr_file_cache = <<>>
    /\ ldr_day_cache = <<>>
    /\ ldr_log = <<>>
    /\ rp_cfg \in ReplayConfigs
    /\ rp_range \in {<<a, b>> : a \in LoaderDays, b \in LoaderDays}
    /\ rp_range[1] <= rp_range[2]
    /\ rp_results = <<>>

\* run(config, from_date, to_date), start to return: errors = config.validate();
\* if errors: raise ValueError; else preload_range and the while loop
ReplayRun ==
    /\ Len(rp_results) < MaxRuns
    /\ IF validate(rp_cfg) # {}
       THEN /\ rp_results' = Append(rp_results,
                  [trades |-> <<>>, skipped_days |-> <<>>, metrics |-> Metrics(<<>>),
                   raised |-> "ValueError", reads |-> <<>>, loader_used |-> FALSE,
                   cold |-> ldr_file_cache = <<>> /\ ldr_day_cache = <<>>])
            /\ UNCHANGED <<ldr_index_built, ldr_file_index, ldr_file_cache, ldr_day_cache>>
       ELSE LET r == ReplayRange(LoaderState, rp_cfg, rp_range[1], rp_range[2])
            IN  /\ ldr_index_built' = r.st.index_built
                /\ ldr_file_index' = r.st.file_index
                /\ ldr_file_cache' = r.st.file_cache
                /\ ldr_day_cache' = r.st.day_cache
                /\ rp_results' = Append(rp_results,
                       [trades |-> r.trades, skipped_days |-> r.skipped_days,
                        metrics |-> Metrics(r.trades), raised |-> "none",
                        reads |-> r.st.reads, loader_used |-> r.st # LoaderState,
                        cold |-> ldr_file_cache = <<>> /\ ldr_day_cache = <<>>])
    /\ UNCHANGED <<ldr_archive, ldr_log, rp_cfg, rp_range>>
    /\ UNCHANGED notReplay

\* what else is done with the loader before and between the runs
ReplayLoad == Len(ldr_log) < MaxTouches /\ load_day /\ UNCHANGED replayVars
ReplayPreload == Len(ldr_log) < MaxTouches /\ preload_range /\ UNCHANGED replayVars
ReplayClear == Len(ldr_log) < MaxTouches /\ clear_cache /\ UNCHANGED replayVars

ReplayNext == ReplayRun \/ ReplayLoad \/ ReplayPreload \/ ReplayClear

\* ------------------------------------------------ the two day loops over a range
\* What a day loop runs over a range: the legs of a config (OptionsBacktester.run) or a
\* generated procedure (CodegenBacktester.execute). The procedures:
\*   every_day    def strategy(ctx): ctx.open_position("ATM", "CE", "SELL")
\*   first_call   seen = []
\*                def strategy(ctx):
\*                    if len(seen) == 0: ctx.open_position("ATM", "CE", "SELL")
\*                    seen.append(1)
\*   scale_in     calls = [0]
\*                def strategy(ctx):
\*                    calls[0] += 1
\*                    ctx.open_position("ATM", "CE", "SELL", lots=calls[0])
\*   buy_call     def strategy(ctx): ctx.open_position("ATM", "CE", "BUY")
Procedures == {"every_day", "first_call", "scale_in", "buy_call"}
\* A short straddle with day filters: vix_max 10 and 0, vix_min 20, dte_max 0, and
\* dte_min 0 with dte_max 2.
FilterConfigs ==
    LET straddle == [BaseConfig EXCEPT
                        !.legs = <<Leg("SELL", "ATM", "CE"), Leg("SELL", "ATM", "PE")>>]
    IN  { [straddle EXCEPT !.vix_max = 10], [straddle EXCEPT !.vix_max = 0],
          [straddle EXCEPT !.vix_min = 20], [straddle EXCEPT !.dte_max = 0],
          [straddle EXCEPT !.dte_min = 0, !.dte_max = 2] }
DayJobs ==
    {[kind |-> "legs", config |-> c, procedure |-> ""] : c \in RunConfigs \cup FilterConfigs}
    \cup {[kind |-> "procedure", config |-> BaseConfig, procedure |-> f] : f \in Procedures}

\* exec(code, exec_globals): what the top level of the code binds in exec_globals,
\* here the length of seen or the value of calls[0]
TopLevel(procedure) == 0
\* exec_globals as strategy_fn finds it on a day: the dict made before the loop
GlobalsOfDay(procedure, exec_globals) == exec_globals

\* strategy_fn(ctx) on the context of a day: the open positions of ctx and exec_globals
\* as the call leaves them
CallStrategy(procedure, exec_globals, inp) ==
    LET ctx == [positions |-> <<>>, next_id |-> 1, ret |-> 0]
        opens == procedure # "first_call" \/ exec_globals = 0
        lots == IF procedure = "scale_in" THEN exec_globals + 1 ELSE 1
        action == IF procedure = "buy_call" THEN "BUY" ELSE "SELL"
        after == IF opens
                 THEN OpenPosition(inp, ctx, "ATM", "CE", action, lots, NoneVal, NoTime)
                 ELSE ctx
    IN  [positions |-> after.positions,
         exec_globals |-> IF procedure \in {"every_day", "buy_call"} THEN exec_globals
                          ELSE exec_globals + 1]
\* one iteration of the while loop of execute on a weekday, given what load_day returned
ExecuteDay(procedure, exec_globals, day_data, current) ==
    IF day_data.rows = {}
    THEN [trades |-> <<>>, skipped_days |-> <<>>, exec_globals |-> exec_globals]
    ELSE LET inp == ExecContext(day_data, current)
             called == CallStrategy(procedure, GlobalsOfDay(procedure, exec_globals), inp)
             day_result == CollectDayResult(inp, [positions |-> called.positions,
                                                  closed_positions |-> <<>>,
                                                  ret |-> FALSE]).result
         IN  [trades |-> day_result.trades, skipped_days |-> <<>>,
              exec_globals |-> called.exec_globals]
\* one iteration of either loop
DayOf(job, exec_globals, day_data, current) ==
    IF job.kind = "legs"
    THEN LET day == EvaluateDay(job.config, day_data, current)
         IN  [trades |-> day.trades, skipped_days |-> day.skipped_days,
              exec_globals |-> exec_globals]
    ELSE ExecuteDay(job.procedure, exec_globals, day_data, current)

\* a day with every series the configs ask for
FullDay ==
    [rows |-> SeriesRows("ATM", "CALL", Times) \cup SeriesRows("ATM", "PUT", Times)
              \cup SeriesRows("ATM+5", "CALL", Times),
     vix |-> 12]

DaysInit ==
    /\ dy_job \in DayJobs
    /\ dy_data \in [1..MaxDay -> CtxDays \cup {NoDay, FullDay}]
    /\ \A d \in 1..MaxDay : Weekday(d) >= 5 => dy_data[d] = NoDay
    /\ dy_range \in {<<a, b>> : a \in 1..MaxDay, b \in 1..MaxDay}
    /\ dy_range[1] <= dy_range[2]
    /\ dy_pc = "start"
    /\ dy_current = dy_range[1]
    /\ dy_globals = 0
    /\ dy_out = [trades |-> <<>>, skipped_days |-> <<>>]

\* what precedes the loop: validate and preload_range, and in execute exec(code,
\* exec_globals); current = from_date
DaysStart ==
    /\ dy_pc = "start"
    /\ dy_pc' = "loop"
    /\ dy_globals' = TopLevel(dy_job.procedure)
    /\ UNCHANGED <<dy_job, dy_data, dy_range, dy_current, dy_out>>
    /\ UNCHANGED notDays

\* if current.weekday() >= 5: current += 1 day; continue
DaysWeekend ==
    /\ dy_pc = "loop" /\ dy_current <= dy_range[2]
    /\ Weekday(dy_current) >= 5
    /\ dy_current' = dy_current + 1
    /\ UNCHANGED <<dy_job, dy_data, dy_range, dy_pc, dy_globals, dy_out>>
    /\ UNCHANGED notDays

\* a weekday: the day is loaded and evaluated, its trades and skip records are added
DaysEvaluate ==
    /\ dy_pc = "loop" /\ dy_current <= dy_range[2]
    /\ Weekday(dy_current) < 5
    /\ LET day == DayOf(dy_job, dy_globals, dy_data[dy_current], dy_current)
       IN  /\ dy_out' = [trades |-> dy_out.trades \o day.trades,
                         skipped_days |-> dy_out.skipped_days \o day.skipped_days]
           /\ dy_globals' = day.exec_globals
    /\ dy_current' = dy_current + 1
    /\ UNCHANGED <<dy_job, dy_data, dy_range, dy_pc>>
    /\ UNCHANGED notDays

\* while current <= to_date ends
DaysFinish ==
    /\ dy_pc = "loop" /\ dy_current > dy_range[2]
    /\ dy_pc' = "done"
    /\ UNCHANGED <<dy_job, dy_data, dy_range, dy_current, dy_globals, dy_out>>
    /\ UNCHANGED notDays

DaysNext == DaysStart \/ DaysWeekend \/ DaysEvaluate \/ DaysFinish

\* ------------------------------------------------ the cost model on its inputs
\* num_legs: 1..MaxLegs
MaxLegs == 2
\* custom_tax_rates={...}: half the sell-side tax of 2020, the other rates as scheduled
CustomRates == [TAX_SCHEDULES[1] EXCEPT !.stt_sell_pct = 300]
\* the default CostConfig, one without taxes, one without slippage and brokerage,
\* one with rates of its own
CostModelConfigs ==
    CostConfigs
    \cup { [slippage_pts |-> 0, brokerage_per_order |-> 0, use_taxes |-> TRUE,
            custom_tax_rates |-> <<>>],
           [slippage_pts |-> 50, brokerage_per_order |-> 200000, use_taxes |-> TRUE,
            custom_tax_rates |-> <<CustomRates>>] }
\* the day before the first schedule, its first day, and the days around the second
CostDates == {20191231, 20200101, 20240930, 20241001}
\* premiums in paise: zero, 100.00 and 150.00
Premiums == {0, 10000, 15000}
CostInputs ==
    [config : CostModelConfigs, trade_date : CostDates, action : Actions,
     premium : Premiums, exit_premium : {0, 10000}, quantity : {0, 25},
     num_legs : 1..MaxLegs]

CostInit ==
    /\ cm_in \in CostInputs
    /\ cm_called = {}
    /\ cm_cost = ZeroCost
    /\ cm_rates = TAX_SCHEDULES[1]

\* CostModel(config).calculate(trade_date, action, premium, exit_premium, quantity,
\* num_legs)
CostCalculate ==
    /\ "calculate" \notin cm_called
    /\ cm_cost' = calculate(cm_in.config, cm_in.trade_date, cm_in.action, cm_in.premium,
                            cm_in.exit_premium, cm_in.quantity, cm_in.num_legs)
    /\ cm_called' = cm_called \cup {"calculate"}
    /\ UNCHANGED <<cm_in, cm_rates>>
    /\ UNCHANGED notCost

\* get_tax_rates(trade_date)
CostRates ==
    /\ "get_tax_rates" \notin cm_called
    /\ cm_rates' = get_tax_rates(cm_in.trade_date)
    /\ cm_called' = cm_called \cup {"get_tax_rates"}
    /\ UNCHANGED <<cm_in, cm_cost>>
    /\ UNCHANGED notCost

CostNext == CostCalculate \/ CostRates

\* ------------------------------------------- the derived metrics and their export
\* Net P&L of a trade in money units: a loss of Rs 2, nothing, Rs 1.0049 and Rs 3.
NetPnls == {0 - 20000, 0, 10049, 30000}
MaxTrades == 3
\* A float: float('inf'), or the quotient num / den; raised is the error of the
\* division that was to produce it.
Inf == [inf |-> TRUE, num |-> 0, den |-> 1, raised |-> "none"]
\* a / b
TrueDiv(a, b) ==
    IF b = 0
    THEN [inf |-> FALSE, num |-> 0, den |-> 1, raised |-> "ZeroDivisionError"]
    ELSE [inf |-> FALSE, num |-> a, den |-> b, raised |-> "none"]
\* round(n / d, 0) for d > 0: to the nearest integer, a tie to the even one
RoundHalfEven(n, d) ==
    LET q == n \div d
        r == n % d
    IN  IF 2 * r < d THEN q
        ELSE IF 2 * r > d THEN q + 1
        ELSE IF q % 2 = 0 THEN q ELSE q + 1
\* round(v, 2) of a ratio, in hundredths
Round2(v) == RoundHalfEven(v.num * Pct, v.den)
\* round(v, 2) of an amount of money in rupees, in paise
Round2Money(v) == RoundHalfEven(v, MoneyPerPaisa)
\* the value exported for an infinite ratio, in hundredths
Capped == 999 * Pct
\* BacktestResult.active_trades
active_trades(trades) == SelectSeq(trades, LAMBDA t : ~t.skipped)
RECURSIVE SumWhere(_, _)
\* sum(t.net_pnl for t in trades if sign * t.net_pnl > 0)
SumWhere(trades, sign) ==
    IF trades = <<>> THEN 0
    ELSE (IF sign * Head(trades).net_pnl > 0 THEN Head(trades).net_pnl ELSE 0)
         + SumWhere(Tail(trades), sign)
\* abs(x)
Abs(x) == IF x < 0 THEN 0 - x ELSE x
\* profit_factor of both classes, on the trades it reads
ProfitFactorOf(trades) ==
    LET gross_wins == SumWhere(trades, 1)
        gross_losses == Abs(SumWhere(trades, 0 - 1))
    IN  IF gross_losses > 0 THEN TrueDiv(gross_wins, gross_losses) ELSE Inf
\* BacktestResult.profit_factor
profit_factor(trades) == ProfitFactorOf(active_trades(trades))
\* StrategyResult.profit_factor
StrategyResult_profit_factor(trades) == ProfitFactorOf(trades)
RECURSIVE DrawdownLoop(_, _, _, _)
\* for t in trades: equity += t.net_pnl; peak = max(peak, equity);
\* max_dd = max(max_dd, peak - equity)
DrawdownLoop(trades, equity, peak, max_dd) ==
    IF trades = <<>> THEN max_dd
    ELSE LET e == equity + Head(trades).net_pnl
             pk == IF peak > e THEN peak ELSE e
             dd == pk - e
         IN  DrawdownLoop(Tail(trades), e, pk, IF max_dd > dd THEN max_dd ELSE dd)
\* max_drawdown with the peak starting at the equity after the first trade
max_drawdown_PeakAtFirst(trades) ==
    LET active == active_trades(trades)
    IN  IF active = <<>> THEN 0
        ELSE DrawdownLoop(Tail(active), Head(active).net_pnl, Head(active).net_pnl, 0)
\* BacktestResult.max_drawdown
max_drawdown(trades) ==
    IF trades = <<>> THEN 0 ELSE DrawdownLoop(active_trades(trades), 0, 0, 0)
\* StrategyResult.max_drawdown
StrategyResult_max_drawdown(trades) == DrawdownLoop(trades, 0, 0, 0)
\* safe(v) of to_dict for a float ratio: 0 for inf, else round(v, 2)
safe(v) == IF v.inf THEN 0 ELSE Round2(v)
\* the entry without the test for infinity
to_dict_profit_factor_Safe(pf) == safe(pf)
\* the profit_factor entry of StrategyResult.to_dict
to_dict_profit_factor(pf) == IF ~pf.inf THEN safe(pf) ELSE Capped
\* the profit_factor entry of _result_to_dict
result_to_dict_profit_factor(pf) == IF ~pf.inf THEN Round2(pf) ELSE Capped
\* The properties read and the summary exported; an error raised by a property leaves
\* no summary.
Exported(pf, exported, dd, total) ==
    [raised |-> pf.raised,
     props |-> [profit_factor |-> pf, max_drawdown |-> dd],
     summary |-> IF pf.raised # "none" THEN <<>>
                 ELSE <<[total_trades |-> total,
                         max_drawdown |-> Round2Money(dd),
                         profit_factor |-> exported]>>]

Trades(values) == UNION {[1..n -> values] : n \in 0..MaxTrades}
MetricsInit ==
    /\ mt_class \in {"BacktestResult", "StrategyResult"}
    /\ mt_trades \in
        IF mt_class = "BacktestResult"
        THEN Trades({[net_pnl |-> n, skipped |-> FALSE] : n \in NetPnls}
                    \cup {[net_pnl |-> 0, skipped |-> TRUE]})
        ELSE Trades({[net_pnl |-> n] : n \in NetPnls})
    /\ mt_summary = <<>>

\* _result_to_dict(result)
ResultToDict ==
    /\ mt_class = "BacktestResult"
    /\ mt_summary = <<>>
    /\ LET pf == profit_factor(mt_trades)
       IN  mt_summary' = <<Exported(pf, result_to_dict_profit_factor(pf),
                                    max_drawdown(mt_trades),
                                    Len(active_trades(mt_trades)))>>
    /\ UNCHANGED <<mt_class, mt_trades>>
    /\ UNCHANGED notMetrics

\* StrategyResult.to_dict()
ToDict ==
    /\ mt_class = "StrategyResult"
    /\ mt_summary = <<>>
    /\ LET pf == StrategyResult_profit_factor(mt_trades)
       IN  mt_summary' = <<Exported(pf, to_dict_profit_factor(pf),
                                    StrategyResult_max_drawdown(mt_trades),
                                    Len(mt_trades))>>
    /\ UNCHANGED <<mt_class, mt_trades>>
    /\ UNCHANGED notMetrics

MetricsNext == ResultToDict \/ ToDict

\* --------------------------------------------------------- ParameterOptimizer.sweep
\* values: up to MaxValues of them
MaxValues == 2
\* A dict is a set of <<key, value>> pairs; d[key] = value
SetItem(d, key, value) == {kv \in d : kv[1] # key} \cup {<<key, value>>}
\* StrategyConfig.to_dict(): the legs become dicts of their own, "params" is
\* self.params, the same dict
to_dict(config) ==
    [name |-> config.name,
     legs |-> [i \in DOMAIN config.legs |->
                  [action |-> config.legs[i].action, strike |-> config.legs[i].strike,
                   option_type |-> config.legs[i].option_type,
                   lots |-> config.legs[i].lots, sl_pct |-> config.legs[i].sl_pct,
                   target_pct |-> config.legs[i].target_pct]],
     entry_time |-> config.entry_time, exit_time |-> config.exit_time,
     sl_pct |-> config.sl_pct, sl_type |-> config.sl_type,
     target_pct |-> config.target_pct, target_type |-> config.target_type,
     lot_size |-> config.lot_size, vix_min |-> config.vix_min,
     vix_max |-> config.vix_max, dte_min |-> config.dte_min,
     dte_max |-> config.dte_max, params |-> config.params]
\* StrategyConfig.from_dict(d): new LegConfig objects, params=d.get("params", {})
from_dict(d) ==
    [name |-> d.name,
     legs |-> [i \in DOMAIN d.legs |->
                  [action |-> d.legs[i].action, strike |-> d.legs[i].strike,
                   option_type |-> d.legs[i].option_type, lots |-> d.legs[i].lots,
                   sl_pct |-> d.legs[i].sl_pct, target_pct |-> d.legs[i].target_pct]],
     entry_time |-> d.entry_time, exit_time |-> d.exit_time, sl_pct |-> d.sl_pct,
     sl_type |-> d.sl_type, target_pct |-> d.target_pct,
     target_type |-> d.target_type, lot_size |-> d.lot_size, vix_min |-> d.vix_min,
     vix_max |-> d.vix_max, dte_min |-> d.dte_min, dte_max |-> d.dte_max,
     params |-> d.params]
\* _modify_config(config, param_name, value): the modified config, and the params dicts
\* as the call leaves them
_modify_config(heap, config, param_name, value) ==
    LET d == to_dict(config)
        leg_idx == IF param_name \in {"leg_1_strike", "leg_1_sl_pct"} THEN 1 ELSE 2
        d2 == IF param_name \in {"entry_time", "exit_time", "sl_pct", "target_pct",
                                 "sl_type", "target_type", "lot_size", "vix_min",
                                 "vix_max", "dte_min", "dte_max"}
              THEN [d EXCEPT ![param_name] = value]
              ELSE IF param_name \in {"leg_1_strike", "leg_2_strike"}
              THEN IF leg_idx <= Len(d.legs)
                   THEN [d EXCEPT !.legs[leg_idx].strike = value] ELSE d
              ELSE IF param_name \in {"leg_1_sl_pct", "leg_2_sl_pct"}
              THEN IF leg_idx <= Len(d.legs)
                   THEN [d EXCEPT !.legs[leg_idx].sl_pct = value] ELSE d
              ELSE d
        custom == param_name \notin
                    {"entry_time", "exit_time", "sl_pct", "target_pct", "sl_type",
                     "target_type", "lot_size", "vix_min", "vix_max", "dte_min",
                     "dte_max", "leg_1_strike", "leg_2_strike", "leg_1_sl_pct",
                     "leg_2_sl_pct"}
    IN  [modified |-> [from_dict(d2) EXCEPT !.name = <<config.name, param_name, value>>],
         heap |-> IF custom
                  THEN [heap EXCEPT ![d.params] = SetItem(@, param_name, value)]
                  ELSE heap]
\* what the archive holds for the days of the sweep
SweepData == [d \in 1..MaxDay |-> IF Weekday(d) >= 5 THEN NoDay ELSE FullDay]
RECURSIVE RunDays(_, _, _)
\* the while loop of run from current to to_date
RunDays(config, current, to_date) ==
    IF current > to_date THEN [trades |-> <<>>, skipped_days |-> <<>>]
    ELSE LET rest == RunDays(config, current + 1, to_date)
         IN  IF Weekday(current) >= 5 THEN rest
             ELSE LET day == EvaluateDay(config, SweepData[current], current)
                  IN  [trades |-> day.trades \o rest.trades,
                       skipped_days |-> day.skipped_days \o rest.skipped_days]
\* bt.run(config, from_date, to_date) over the days of the sweep
run(config) ==
    IF validate(config) # {}
    THEN [raised |-> "ValueError", strategy |-> config, trades |-> <<>>,
          skipped_days |-> <<>>]
    ELSE LET r == RunDays(config, 1, MaxDay)
         IN  [raised |-> "none", strategy |-> config, trades |-> r.trades,
              skipped_days |-> r.skipped_days]
\* The base configs: a short straddle, and a short call with a custom param.
SweepConfigs ==
    { [config |-> [BaseConfig EXCEPT !.legs = <<Leg("SELL", "ATM", "CE"),
                                                Leg("SELL", "ATM", "PE")>>]
                  @@ [name |-> "straddle", params |-> 1],
       heap |-> <<{}>>],
      [config |-> [BaseConfig EXCEPT !.legs = <<Leg("SELL", "ATM", "CE")>>]
                  @@ [name |-> "call", params |-> 1],
       heap |-> <<{<<"trail_pct", 5>>}>>] }
\* the parameters swept and the values of each
SweepValues ==
    [sl_pct |-> {20, 50}, exit_time |-> {[h |-> 9, m |-> 21], [h |-> 15, m |-> 14]},
     lot_size |-> {25, 50}, leg_1_strike |-> {"ATM+5", "OTM+1"},
     leg_2_sl_pct |-> {20, 50}, trail_pct |-> {5, 10}]

SweepInit ==
    /\ sw_in \in SweepConfigs
    /\ sw_config = sw_in.config
    /\ sw_heap = sw_in.heap
    /\ sw_param \in DOMAIN SweepValues
    /\ sw_values \in UNION {[1..n -> SweepValues[sw_param]] : n \in 0..MaxValues}
    /\ sw_pc = "loop"
    /\ sw_results = <<>>

\* one iteration of the loop of sweep: modified = self._modify_config(config,
\* param_name, value); result = bt.run(modified, from_date, to_date);
\* report.results.append(...)
SweepValue ==
    /\ sw_pc = "loop" /\ Len(sw_results) < Len(sw_values)
    /\ LET value == sw_values[Len(sw_results) + 1]
           m == _modify_config(sw_heap, sw_config, sw_param, value)
           result == run(m.modified)
       IN  /\ sw_heap' = m.heap
           /\ IF result.raised # "none"
              THEN sw_pc' = "raised" /\ sw_results' = sw_results
              ELSE /\ sw_pc' = sw_pc
                   /\ sw_results' = Append(sw_results,
                          [param_name |-> sw_param, param_value |-> value,
                           result |-> result])
    /\ UNCHANGED <<sw_in, sw_config, sw_param, sw_values>>
    /\ UNCHANGED notSweep

\* return report
SweepReturn ==
    /\ sw_pc = "loop" /\ Len(sw_results) = Len(sw_values)
    /\ sw_pc' = "returned"
    /\ UNCHANGED <<sw_in, sw_config, sw_heap, sw_param, sw_values, sw_results>>
    /\ UNCHANGED notSweep

SweepNext == SweepValue \/ SweepReturn

\* ------------------------------------------------------------- specifications
\* no execute_leg call of its own in progress
LegIdle ==
    /\ leg_in = LegArgs(Leg("SELL", "ATM", "CE"), BaseConfig, Calendar[1], 0, RunCostConfig)
    /\ leg_pc = "idle"
    /\ leg_row = NoRow
    /\ leg_st = NoEntry
    /\ leg_trade = NoTrade
\* no run in progress
RunIdle ==
    /\ run_cfg = BaseConfig
    /\ run_pc = "idle"
    /\ run_current = 1
    /\ run_day = NoDay
    /\ run_dte = 0
    /\ run_i = 0
    /\ run_trades = <<>>
    /\ run_skipped = <<>>
\* no context in use
CtxIdle ==
    /\ ctx_in = [day_data |-> NoDay, trade_date |-> Calendar[1], dte |-> 0, lot_size |-> 25,
                 cost_config |-> RunCostConfig, entry_time |-> EntryTime,
                 exit_time |-> [h |-> 15, m |-> 15]]
    /\ ctx_pc = "idle"
    /\ ctx_positions = <<>>
    /\ ctx_closed_positions = <<>>
    /\ ctx_next_id = 1
    /\ ctx_result = NoResult
\* no execute in progress
ExecIdle ==
    /\ exec_pc = "idle"
    /\ exec_current = 1
    /\ exec_trades = <<>>
    /\ exec_daily_pnl = <<>>
    /\ exec_errors = <<>>
\* no run_day in progress
StratIdle ==
    /\ strat_in = [lot_size |-> 75, exit_mode |-> "hard"]
    /\ strat_pc = "idle"
    /\ strat_t = EntryMinute
    /\ strat_leg = [side \in Sides |-> NoStratLeg]
    /\ strat_locked = NoneVal
    /\ strat_trades = <<>>

\* no generate_code call in progress
GenIdle ==
    /\ gen_max_retries = 0
    /\ gen_pc = "idle"
    /\ gen_attempt = 0
    /\ gen_requests = <<>>
    /\ gen_code = Unbound
    /\ gen_ret = Unbound
\* no generated code under evaluation
BoxIdle ==
    /\ box_code = [top |-> <<>>, def |-> FALSE, body |-> <<>>]
    /\ box_pc = "idle"
    /\ box_line = 1
    /\ box_st = Namespace
\* no loader in use
LoaderIdle ==
    /\ ldr_archive = {}
    /\ ldr_index_built = FALSE
    /\ ldr_file_index = <<>>
    /\ ldr_file_cache = <<>>
    /\ ldr_day_cache = <<>>
    /\ ldr_log = <<>>
\* no workers
WorkersIdle ==
    /\ wk_range = <<>>
    /\ wk_pc = [w \in Workers |-> "idle"]
    /\ wk_local = [w \in Workers |-> NoLocals]
    /\ wk_writes = <<>>
\* no replay
ReplayIdle ==
    /\ rp_cfg = BaseConfig
    /\ rp_range = <<1, 1>>
    /\ rp_results = <<>>
\* no day loop
DaysIdle ==
    /\ dy_job = [kind |-> "legs", config |-> BaseConfig, procedure |-> ""]
    /\ dy_data = [d \in 1..MaxDay |-> NoDay]
    /\ dy_range = <<1, 1>>
    /\ dy_pc = "done"
    /\ dy_current = 1
    /\ dy_globals = 0
    /\ dy_out = [trades |-> <<>>, skipped_days |-> <<>>]
\* the cost model not called on its own
CostIdle ==
    /\ cm_in = [config |-> RunCostConfig, trade_date |-> 20241001, action |-> "SELL",
                premium |-> 0, exit_premium |-> 0, quantity |-> 0, num_legs |-> 1]
    /\ cm_called = {}
    /\ cm_cost = ZeroCost
    /\ cm_rates = TAX_SCHEDULES[1]
MetricsIdle ==
    /\ mt_class = ""
    /\ mt_trades = <<>>
    /\ mt_summary = <<>>
SweepIdle ==
    /\ sw_in = <<>>
    /\ sw_config = BaseConfig
    /\ sw_heap = <<>>
    /\ sw_param = ""
    /\ sw_values = <<>>
    /\ sw_pc = "idle"
    /\ sw_results = <<>>
\* execute_leg alone
InitLeg == LegInit /\ RunIdle /\ CtxIdle /\ ExecIdle /\ StratIdle /\ GenIdle /\ BoxIdle /\ LoaderIdle /\ WorkersIdle /\ ReplayIdle /\ DaysIdle /\ CostIdle /\ MetricsIdle /\ SweepIdle
SpecLeg == InitLeg /\ [][LegNext]_vars
\* OptionsBacktester.run alone
InitRun == RunInit /\ LegIdle /\ CtxIdle /\ ExecIdle /\ StratIdle /\ GenIdle /\ BoxIdle /\ LoaderIdle /\ WorkersIdle /\ ReplayIdle /\ DaysIdle /\ CostIdle /\ MetricsIdle /\ SweepIdle
SpecRun == InitRun /\ [][RunNext]_vars
\* one StrategyContext, from construction to _collect_day_result
InitCtx == CtxInit /\ LegIdle /\ RunIdle /\ ExecIdle /\ StratIdle /\ GenIdle /\ BoxIdle /\ LoaderIdle /\ WorkersIdle /\ ReplayIdle /\ DaysIdle /\ CostIdle /\ MetricsIdle /\ SweepIdle
SpecCtx == InitCtx /\ [][CtxNext]_vars
\* CodegenBacktester.execute over the date range, a fresh context each evaluated day
InitExec == ExecInit /\ CtxIdle /\ LegIdle /\ RunIdle /\ StratIdle /\ GenIdle /\ BoxIdle /\ LoaderIdle /\ WorkersIdle /\ ReplayIdle /\ DaysIdle /\ CostIdle /\ MetricsIdle /\ SweepIdle
SpecExec == InitExec /\ [][ExecNext]_vars
\* run_day of the straddle re-entry strategy over one day
InitStrat == StratInit /\ LegIdle /\ RunIdle /\ CtxIdle /\ ExecIdle /\ GenIdle /\ BoxIdle /\ LoaderIdle /\ WorkersIdle /\ ReplayIdle /\ DaysIdle /\ CostIdle /\ MetricsIdle /\ SweepIdle
SpecStrat == InitStrat /\ [][StratNext]_vars
\* one generate_code call
InitGen == GenInit /\ LegIdle /\ RunIdle /\ CtxIdle /\ ExecIdle /\ StratIdle /\ BoxIdle /\ LoaderIdle /\ WorkersIdle /\ ReplayIdle /\ DaysIdle /\ CostIdle /\ MetricsIdle /\ SweepIdle
SpecGen == InitGen /\ [][GenNext]_vars
\* the generated code of one execute call, up to the end of its first day
InitBox == BoxInit /\ LegIdle /\ RunIdle /\ CtxIdle /\ ExecIdle /\ StratIdle /\ GenIdle /\ LoaderIdle /\ WorkersIdle /\ ReplayIdle /\ DaysIdle /\ CostIdle /\ MetricsIdle /\ SweepIdle
SpecBox == InitBox /\ [][BoxNext]_vars
\* one DataLoader over an archive
InitLoader == LoaderInit /\ LegIdle /\ RunIdle /\ CtxIdle /\ ExecIdle /\ StratIdle /\ GenIdle /\ BoxIdle /\ WorkersIdle /\ ReplayIdle /\ DaysIdle /\ CostIdle /\ MetricsIdle /\ SweepIdle
SpecLoader == InitLoader /\ [][LoaderNext]_vars
\* preload_range on one DataLoader, then load_day calls of the workers, interleaved
InitWorkers == WorkersInit /\ LegIdle /\ RunIdle /\ CtxIdle /\ ExecIdle /\ StratIdle /\ GenIdle /\ BoxIdle /\ ReplayIdle /\ DaysIdle /\ CostIdle /\ MetricsIdle /\ SweepIdle
SpecWorkers == InitWorkers /\ [][WorkersNext]_vars
\* runs of one config over one range on a loader that is used in between
InitReplay == ReplayInit /\ LegIdle /\ RunIdle /\ CtxIdle /\ ExecIdle /\ StratIdle /\ GenIdle /\ BoxIdle /\ WorkersIdle /\ DaysIdle /\ CostIdle /\ MetricsIdle /\ SweepIdle
SpecReplay == InitReplay /\ [][ReplayNext]_vars
\* a day loop over a range of days
InitDays == DaysInit /\ LegIdle /\ RunIdle /\ CtxIdle /\ ExecIdle /\ StratIdle /\ GenIdle /\ BoxIdle /\ LoaderIdle /\ WorkersIdle /\ ReplayIdle /\ CostIdle /\ MetricsIdle /\ SweepIdle
SpecDays == InitDays /\ [][DaysNext]_vars
\* the cost model applied to one input
InitCost == CostInit /\ LegIdle /\ RunIdle /\ CtxIdle /\ ExecIdle /\ StratIdle /\ GenIdle /\ BoxIdle /\ LoaderIdle /\ WorkersIdle /\ ReplayIdle /\ DaysIdle /\ MetricsIdle /\ SweepIdle
SpecCost == InitCost /\ [][CostNext]_vars

\* the metrics and the export of a result
InitMetrics == MetricsInit /\ LegIdle /\ RunIdle /\ CtxIdle /\ ExecIdle /\ StratIdle /\ GenIdle /\ BoxIdle /\ LoaderIdle /\ WorkersIdle /\ ReplayIdle /\ DaysIdle /\ CostIdle /\ SweepIdle
SpecMetrics == InitMetrics /\ [][MetricsNext]_vars

\* sweep on its own
InitSweep == SweepInit /\ LegIdle /\ RunIdle /\ CtxIdle /\ ExecIdle /\ StratIdle /\ GenIdle /\ BoxIdle /\ LoaderIdle /\ WorkersIdle /\ ReplayIdle /\ DaysIdle /\ MetricsIdle /\ CostIdle
SpecSweep == InitSweep /\ [][SweepNext]_vars

\* ------------------------------------------------------------ claims, SpecLeg
\* leg_row is a candle of post_entry that the scan has evaluated
LegScanned == leg_pc \in {"open", "exited", "exhausted"} /\ TimeGT(leg_row.ts, leg_st.entry_ts)
\* the candle's time of day is at or after the exit time
AtOrAfterExit(c) ==
    c.ts.h * 60 + c.ts.m >= leg_in.exit_time.h * 60 + leg_in.exit_time.m
StopPct == IF leg_in.leg_sl_pct = NoneVal THEN leg_in.sl_pct ELSE leg_in.leg_sl_pct
TargetPct == IF leg_in.leg_target_pct = NoneVal THEN leg_in.target_pct ELSE leg_in.leg_target_pct
\* price (rupees) p is at or beyond the stop: entry * (100 + pct) / 100 above for a
\* SELL, entry * (100 - pct) / 100 below for a BUY (compared in 1/100 paise)
BeyondStop(p) ==
    /\ StopPct > 0
    /\ IF leg_in.action = "SELL"
       THEN p * 10000 >= leg_st.entry_price * (100 + StopPct)
       ELSE p * 10000 <= leg_st.entry_price * (100 - StopPct)
BeyondTarget(p) ==
    /\ TargetPct > 0
    /\ IF leg_in.action = "SELL"
       THEN p * 10000 <= leg_st.entry_price * (100 - TargetPct)
       ELSE p * 10000 >= leg_st.entry_price * (100 + TargetPct)
StopMatches(c) ==
    IF leg_in.sl_type = "hard"
    THEN BeyondStop(IF leg_in.action = "SELL" THEN c.high ELSE c.low)
    ELSE BeyondStop(c.close)
TargetMatches(c) ==
    IF leg_in.target_type = "hard"
    THEN BeyondTarget(IF leg_in.action = "SELL" THEN c.low ELSE c.high)
    ELSE BeyondTarget(c.close)
StopReasons == {"sl_hard", "sl_close"}
TargetReasons == {"target_hard", "target_close"}

\* C1: each scanned candle is evaluated time exit first, then stop, then target, and
\* the first match ends the scan: a candle at or after the exit time exits with
\* time_exit at its open whatever its high, low and close; a candle before it that
\* matches the stop exits with a stop reason even if it matches the target too; a
\* candle that matches only the target exits with a target reason; and the scan goes
\* past a candle only if it matched none of the three.
C1_ExitPrecedence ==
    LegScanned =>
        /\ AtOrAfterExit(leg_row) =>
            /\ leg_pc = "exited"
            /\ leg_trade.exit_reason = "time_exit"
            /\ leg_trade.exit_price = leg_row.open * 100
            /\ leg_trade.exit_time = leg_row.ts
        /\ (~AtOrAfterExit(leg_row) /\ StopMatches(leg_row)) =>
            /\ leg_pc = "exited"
            /\ leg_trade.exit_reason \in StopReasons
        /\ (~AtOrAfterExit(leg_row) /\ ~StopMatches(leg_row) /\ TargetMatches(leg_row)) =>
            /\ leg_pc = "exited"
            /\ leg_trade.exit_reason \in TargetReasons
        /\ leg_pc = "exited" =>
            AtOrAfterExit(leg_row) \/ StopMatches(leg_row) \/ TargetMatches(leg_row)
\* a candle at the exit time that also crosses the stop has exited the leg by time
C1_Witness ==
    /\ leg_pc = "exited"
    /\ AtOrAfterExit(leg_row)
    /\ StopMatches(leg_row)
    /\ TargetMatches(leg_row)
    /\ leg_trade.exit_reason = "time_exit"

\* C2: with stop type hard, a scanned candle before the exit time whose high (SELL)
\* or low (BUY) is at or beyond the stop price exits the leg at that candle with
\* reason sl_hard, at exactly entry * (100 +/- pct) / 100 and not at a price of the
\* candle; sl_hard is recorded in no other case.
C2_HardStopExactPrice ==
    /\ (LegScanned /\ leg_in.sl_type = "hard" /\ ~AtOrAfterExit(leg_row)
        /\ BeyondStop(IF leg_in.action = "SELL" THEN leg_row.high ELSE leg_row.low)) =>
            /\ leg_pc = "exited"
            /\ leg_trade.exit_reason = "sl_hard"
    /\ (leg_pc = "exited" /\ leg_trade.exit_reason = "sl_hard") =>
            /\ leg_in.sl_type = "hard"
            /\ BeyondStop(IF leg_in.action = "SELL" THEN leg_row.high ELSE leg_row.low)
            /\ leg_trade.exit_time = leg_row.ts
            /\ leg_trade.exit_price * 100 =
                 leg_trade.entry_price
                 * (IF leg_in.action = "SELL" THEN 100 + StopPct ELSE 100 - StopPct)
\* entry 100, 25% on a SELL, a candle with high 130: out at 125
C2_Witness ==
    /\ leg_pc = "exited"
    /\ leg_in.action = "SELL"
    /\ leg_trade.entry_price = 10000
    /\ StopPct = 25
    /\ leg_row.high = 130
    /\ leg_trade.exit_reason = "sl_hard"
    /\ leg_trade.exit_price = 12500

\* C3: with stop type close, a scanned candle before the exit time triggers the stop
\* exactly when its close is at or beyond the stop price, and the leg then exits at
\* that close with reason sl_close; a candle whose high or low is beyond the stop
\* while its close is not does not trigger it.
C3_CloseStopOnCloseOnly ==
    /\ (LegScanned /\ leg_in.sl_type = "close" /\ ~AtOrAfterExit(leg_row)) =>
            /\ BeyondStop(leg_row.close) =>
                /\ leg_pc = "exited"
                /\ leg_trade.exit_reason = "sl_close"
                /\ leg_trade.exit_price = leg_row.close * 100
                /\ leg_trade.exit_time = leg_row.ts
            /\ ~BeyondStop(leg_row.close) =>
                (leg_pc = "exited" => leg_trade.exit_reason \in TargetReasons)
    /\ (leg_pc = "exited" /\ leg_trade.exit_reason = "sl_close") =>
            leg_in.sl_type = "close" /\ BeyondStop(leg_row.close)
\* a SELL leg scanned past a candle whose high crossed the stop and whose close did not
C3_Witness ==
    /\ leg_pc = "open"
    /\ LegScanned
    /\ leg_in.sl_type = "close"
    /\ leg_in.action = "SELL"
    /\ BeyondStop(leg_row.high)
    /\ ~BeyondStop(leg_row.close)

LegReturned == leg_pc \in {"skipped", "exited", "exhausted"}
SixReasons == {"time_exit", "sl_hard", "sl_close", "target_hard", "target_close", "no_data"}
\* C4: the exit reason of every record execute_leg returns is one of time_exit,
\* sl_hard, sl_close, target_hard, target_close, no_data, and it is no_data exactly
\* when the record is a skip.
C4_SixTerminalReasons ==
    LegReturned =>
        /\ leg_trade.exit_reason \in SixReasons
        /\ (leg_trade.exit_reason = "no_data") <=> leg_trade.skipped

\* C5: when the series ends after entry with no trigger, the leg is closed with
\* time_exit at a price of the last candle seen.
C5_DataEndAtLastPrice ==
    (leg_pc = "exhausted" /\ LegScanned) =>
        /\ leg_trade.exit_reason = "time_exit"
        /\ leg_trade.exit_price \in
             {leg_row.open * 100, leg_row.high * 100, leg_row.low * 100, leg_row.close * 100}

\* minute of the day
MinuteOf(t) == t.h * 60 + t.m
\* C38: stop and target are never evaluated on the entry candle: the scan takes only
\* candles strictly after the entry timestamp.
C38_EntryCandleNotEvaluated ==
    \* the entry candle, whatever its prices, leaves the leg open with its defaults
    /\ (leg_pc = "open" /\ MinuteOf(leg_row.ts) = MinuteOf(leg_st.entry_ts)) =>
          /\ leg_st = EntryState(leg_in, leg_row)
          /\ leg_trade = NoTrade
    \* the candle that ended the scan is later than the entry candle
    /\ leg_pc = "exited" =>
          /\ MinuteOf(leg_row.ts) > MinuteOf(leg_st.entry_ts)
          /\ leg_trade.exit_time = leg_row.ts
          /\ MinuteOf(leg_trade.exit_time) > MinuteOf(leg_in.entry_time)
    \* a stop or target reason comes from a later candle that matches it
    /\ (leg_pc \in {"exited", "exhausted"}
        /\ leg_trade.exit_reason \in StopReasons \cup TargetReasons) =>
          /\ MinuteOf(leg_row.ts) > MinuteOf(leg_st.entry_ts)
          /\ StopMatches(leg_row) \/ TargetMatches(leg_row)
\* the leg is open after an entry candle that crosses both its stop and its target
C38_Witness ==
    /\ leg_pc = "open"
    /\ leg_row.ts = leg_st.entry_ts
    /\ StopMatches(leg_row)
    /\ TargetMatches(leg_row)
    /\ leg_st.exit_reason = "time_exit"

\* ------------------------------------------------------------ claims, SpecRun
RunDate == Calendar[run_current]
RunLegs == DOMAIN run_cfg.legs
\* the day has no row with the strike label
NoRowsForStrike(day_data, strike) == ~\E r \in day_data.rows : r.strike_rel = strike
StrikeMissing(day_data) == \E i \in RunLegs : NoRowsForStrike(day_data, run_cfg.legs[i].strike)
SkipsOn(d) == {k \in DOMAIN run_skipped : run_skipped[k].date = d}
TradesOn(d) == {k \in DOMAIN run_trades : run_trades[k].trade_date = d}

\* a day skipped for missing strikes has that one skip record and no trade
C6_SkippedDayHasNoTrades ==
    \A k \in DOMAIN run_skipped :
        run_skipped[k].reason = "Missing strikes: " =>
            /\ SkipsOn(run_skipped[k].date) = {k}
            /\ TradesOn(run_skipped[k].date) = {}
C6_Step ==
    \* check_data_boundary on a day with a missing strike label ends the day with one skip record
    /\ (run_pc = "boundary" /\ StrikeMissing(run_day)) =>
        /\ run_skipped' = Append(run_skipped,
                [date |-> RunDate, reason |-> "Missing strikes: ", leg |-> 0])
        /\ run_trades' = run_trades
        /\ run_pc' = "loop"
        /\ run_current' = run_current + 1
    \* the legs of a day start only after check_data_boundary passed for that day
    /\ (run_pc' = "legs" /\ run_pc # "legs") =>
        /\ run_pc = "boundary"
        /\ ~StrikeMissing(run_day)
        /\ run_day' = run_day
        /\ run_current' = run_current
    \* and only they add trades, for that day
    /\ run_trades' # run_trades =>
        /\ run_pc = "legs"
        /\ run_day' = run_day
        /\ \E t \in {run_trades'[Len(run_trades')]} :
            /\ run_trades' = Append(run_trades, t)
            /\ t.trade_date = RunDate
\* C6: in run, check_data_boundary is evaluated for a day before any leg of that day
\* runs; when a required strike label has no rows that day, the day gets one skip
\* record whose reason holds "Missing strikes", none of its legs is executed and it
\* produces no trade.
C6_BoundaryBeforeLegs == [](C6_SkippedDayHasNoTrades) /\ [][C6_Step]_vars
\* a finished run with a day skipped for missing strikes and trades of another day
C6_Witness ==
    /\ run_pc = "done"
    /\ run_trades # <<>>
    /\ \E k \in DOMAIN run_skipped :
        run_skipped[k].reason = "Missing strikes: " /\ run_skipped[k].leg = 0

\* the series of a leg has a candle at every minute from entry_time to exit_time
LegCovered(day_data, leg) ==
    \A t \in Times :
        (TimeGE(t, run_cfg.entry_time) /\ TimeGE(run_cfg.exit_time, t)) =>
            \E r \in day_data.rows :
                /\ r.strike_rel = leg.strike
                /\ r.type = (IF leg.option_type = "CE" THEN "CALL" ELSE "PUT")
                /\ r.ts = t
\* C7: check_data_boundary returns valid only if the (strike label, option type)
\* series of every leg exists and has a candle for every minute from the entry time
\* to the exit time.
C7_ValidOnlyIfCovered ==
    (run_pc = "boundary" /\ check_data_boundary(run_day, run_cfg).valid) =>
        \A i \in RunLegs : LegCovered(run_day, run_cfg.legs[i])

\* the (strike, type) series of the leg is empty or has no candle at the entry time
LegDataAbsent(day_data, leg) ==
    ~\E r \in day_data.rows :
        /\ r.strike_rel = leg.strike
        /\ r.type = (IF leg.option_type = "CE" THEN "CALL" ELSE "PUT")
        /\ r.ts.h = run_cfg.entry_time.h
        /\ r.ts.m = run_cfg.entry_time.m
C8_Step ==
    /\ (run_pc = "legs" /\ LegDataAbsent(run_day, run_cfg.legs[run_i])) =>
        LET t == execute_leg(run_day, run_cfg.legs[run_i], run_cfg, RunDate, run_dte,
                             RunCostConfig)
        IN  /\ t.skipped
            /\ t.skip_reason # ""
            /\ run_skipped' = Append(run_skipped,
                    [date |-> RunDate, reason |-> t.skip_reason, leg |-> run_i])
            /\ run_trades' = run_trades
            \* the next leg of the day, or the next day
            /\ IF run_i < Len(run_cfg.legs)
               THEN run_pc' = "legs" /\ run_i' = run_i + 1 /\ run_current' = run_current
               ELSE run_pc' = "loop" /\ run_current' = run_current + 1
    \* only validate, before the first day, raises
    /\ run_pc' = "error" => run_pc = "start"
\* C8: a leg whose series is empty or has no candle at the entry time makes execute_leg
\* return a skip record with a reason; run logs it as a skip, adds no trade for the
\* leg, raises nothing and goes on with the remaining legs and days.
C8_DataAbsenceNeverRaises == [][C8_Step]_vars
\* a finished run that skipped a leg for missing data and traded on a later day
C8_Witness ==
    /\ run_pc = "done"
    /\ \E k \in DOMAIN run_skipped : \E j \in DOMAIN run_trades :
        /\ run_skipped[k].leg > 0
        /\ run_trades[j].trade_date > run_skipped[k].date

\* the leg ids of the trades, and of the skipped legs, of date d
TradedLegs(d) == {run_trades[k].leg_id : k \in TradesOn(d)}
SkippedLegs(d) == {run_skipped[k].leg : k \in SkipsOn(d)} \ {0}
C39_Recorded ==
    run_pc \in {"loop", "boundary", "legs", "done"} =>
        \* a trade is of the leg at its leg id, and is no skip record
        /\ \A k \in DOMAIN run_trades :
              /\ ~run_trades[k].skipped
              /\ run_trades[k].leg_id \in RunLegs
              /\ run_trades[k].action = run_cfg.legs[run_trades[k].leg_id].action
              /\ run_trades[k].strike = run_cfg.legs[run_trades[k].leg_id].strike
              /\ run_trades[k].option_type = run_cfg.legs[run_trades[k].leg_id].option_type
        \* by day, and within a day in config order
        /\ \A j, k \in DOMAIN run_trades :
              j < k => \/ run_trades[j].trade_date < run_trades[k].trade_date
                       \/ /\ run_trades[j].trade_date = run_trades[k].trade_date
                          /\ run_trades[j].leg_id < run_trades[k].leg_id
        \* a day whose legs were executed has each leg once, as a trade or as a skip
        /\ \A i \in 1..MaxDay :
              (i < run_current /\ TradedLegs(Calendar[i]) \cup SkippedLegs(Calendar[i]) # {}) =>
                  /\ TradedLegs(Calendar[i]) \cup SkippedLegs(Calendar[i]) = RunLegs
                  /\ TradedLegs(Calendar[i]) \cap SkippedLegs(Calendar[i]) = {}
C39_Step ==
    \* a leg with data is recorded as a trade, whatever happened to the legs before it
    (run_pc = "legs" /\ ~LegDataAbsent(run_day, run_cfg.legs[run_i])) =>
        /\ Len(run_trades') = Len(run_trades) + 1
        /\ run_trades'[Len(run_trades')].leg_id = run_i
        /\ run_trades'[Len(run_trades')].trade_date = RunDate
        /\ run_skipped' = run_skipped
\* C39: the legs of a day are executed independently and in config order: when a leg
\* is skipped for missing data the remaining legs of the day are still executed and
\* recorded as trades, each trade's leg id is its 1-based position in the config, and
\* the trade list never contains a skipped record.
C39_LegsIndependentInOrder == [](C39_Recorded) /\ [][C39_Step]_vars
\* a finished run with a day whose first leg was skipped and whose second leg traded
C39_Witness ==
    /\ run_pc = "done"
    /\ \E k \in DOMAIN run_skipped : \E j \in DOMAIN run_trades :
        /\ run_skipped[k].leg = 1
        /\ run_trades[j].leg_id = 2
        /\ run_trades[j].trade_date = run_skipped[k].date

\* ------------------------------------------------------------ claims, SpecCtx
\* C9: after any sequence of open_position, close_position, close_all and
\* update_prices calls, get_total_pnl() equals get_realized_pnl() +
\* get_unrealized_pnl() exactly.
C9_TotalIsRealizedPlusUnrealized ==
    ctx_pc \in {"live", "collected"} =>
        get_total_pnl = get_realized_pnl + get_unrealized_pnl
\* a closed position with a profit or loss and costs, beside an open one marked away
\* from its entry price
C9_Witness ==
    /\ ctx_pc = "live"
    /\ get_realized_pnl # 0
    /\ get_unrealized_pnl # 0
    /\ \E k \in DOMAIN ctx_closed_positions : CostTotal(ctx_closed_positions[k].cost) > 0

C10_AllClosed ==
    ctx_pc = "collected" =>
        /\ ctx_positions = <<>>
        /\ \A k \in DOMAIN ctx_closed_positions : ~ctx_closed_positions[k].is_open
        /\ Len(ctx_result.trades) = Len(ctx_closed_positions)
C10_Step ==
    (ctx_pc = "live" /\ ctx_pc' = "collected") =>
        LET trades == ctx_result'.trades
            n == Len(ctx_closed_positions)
        IN  /\ Len(trades) = n + Len(ctx_positions)
            \* closed by the strategy: as the strategy closed it
            /\ \A k \in DOMAIN ctx_closed_positions :
                /\ ctx_closed_positions'[k] = ctx_closed_positions[k]
                /\ trades[k].exit_reason = ctx_closed_positions[k].exit_reason
                /\ trades[k].exit_price = ctx_closed_positions[k].exit_price
                /\ trades[k].exit_time = ctx_closed_positions[k].exit_time
            \* left open: in the trade list, closed at the exit time
            /\ \A j \in DOMAIN ctx_positions :
                /\ trades[n + j].strike = ctx_positions[j].strike
                /\ trades[n + j].option_type = ctx_positions[j].option_type
                /\ trades[n + j].action = ctx_positions[j].action
                /\ trades[n + j].entry_price = ctx_positions[j].entry_price
                /\ trades[n + j].entry_time = ctx_positions[j].entry_time
                /\ trades[n + j].exit_reason = "time_exit"
                /\ TimeGE(trades[n + j].exit_time, ctx_in.exit_time)
\* C10: after _collect_day_result no position of the context is open; every position
\* the strategy left open is in the day's trade list with exit reason "time_exit" and
\* an exit time at or after the configured exit time; the positions the strategy
\* closed keep the reason, price and time of their own close.
C10_EndOfDayFinalization == [](C10_AllClosed) /\ [][C10_Step]_vars
\* a collected day with a trade the strategy closed at 09:21 and one closed by the
\* finalization
C10_Witness ==
    /\ ctx_pc = "collected"
    /\ \E j, k \in DOMAIN ctx_result.trades :
        /\ j < k
        /\ ctx_result.trades[j].exit_reason = "manual"
        /\ ctx_result.trades[j].exit_time = [h |-> 9, m |-> 21]
        /\ ctx_result.trades[k].exit_reason = "time_exit"

\* the open of the first candle of the position's series at or after the exit time
\* (hour and minute), the position's mark when there is none
PriceAtOrAfterExit(pos) ==
    LET candles == get_candles(ctx_in.day_data, pos.strike, pos.option_type)
        late == {k \in DOMAIN candles : TimeGE(candles[k].ts, ctx_in.exit_time)}
    IN  IF late # {} THEN Paise(candles[FirstIndex(late)].open) ELSE pos.current_price
\* C11: the finalization closes each position still open at the open of the first
\* candle of its series whose hour and minute are at or after the configured exit
\* time, at the position's last mark only when there is no such candle; a candle
\* before the exit time never gives the price.
C11_FinalizationPrice ==
    ctx_pc = "live" =>
        \A k \in DOMAIN ctx_positions :
            ForceClosePrice(ctx_in, ctx_positions[k]) = PriceAtOrAfterExit(ctx_positions[k])

\* the ids of the day's positions, open and closed
CtxIds == {ctx_positions[k].id : k \in DOMAIN ctx_positions}
          \cup {ctx_closed_positions[k].id : k \in DOMAIN ctx_closed_positions}
\* open_position(contract, action, args) finds no positive entry price
Unresolved(contract, args) ==
    IF args[1] # NoneVal THEN args[1] <= 0
    ELSE ~\E r \in ctx_in.day_data.rows :
            /\ r.strike_rel = contract[1]
            /\ r.type = (IF contract[2] = "CE" THEN "CALL" ELSE "PUT")
            /\ r.ts = (IF args[2] = NoTime THEN ctx_in.entry_time ELSE args[2])
            /\ r.open > 0
C13_Ids ==
    ctx_pc = "live" =>
        \* the ids given so far are 1 .. _next_id - 1, each to one position
        /\ CtxIds = 1..(ctx_next_id - 1)
        /\ Len(ctx_positions) + Len(ctx_closed_positions) = ctx_next_id - 1
        /\ \A j, k \in DOMAIN ctx_positions : j < k => ctx_positions[j].id < ctx_positions[k].id
        \* what the next call returns
        /\ \A contract \in CtxContracts, action \in Actions, args \in OpenArgs :
            LET st == OpenPosition(ctx_in, CtxState, contract[1], contract[2], action, 1,
                                   args[1], args[2])
            IN  IF Unresolved(contract, args)
                THEN /\ st.ret = 0 - 1
                     /\ st.positions = ctx_positions
                     /\ st.next_id = ctx_next_id
                ELSE /\ st.ret >= 1
                     /\ \A id \in CtxIds : st.ret > id
                     /\ st.next_id = st.ret + 1
                     /\ Len(st.positions) = Len(ctx_positions) + 1
                     /\ st.positions[Len(st.positions)].id = st.ret
C13_Step ==
    (ctx_pc = "live" /\ ctx_pc' = "live") =>
        \/ ctx_next_id' = ctx_next_id /\ CtxIds' = CtxIds
        \/ /\ ctx_next_id' = ctx_next_id + 1
           /\ CtxIds' = CtxIds \cup {ctx_next_id}
           /\ Len(ctx_positions') = Len(ctx_positions) + 1
\* C13: open_position returns a fresh position id or -1: within one day's context the
\* ids start at 1 and strictly increase with every successful open; when no positive
\* entry price is resolved the call returns -1, creates no position and takes no id.
C13_FreshIdOrSentinel == [](C13_Ids) /\ [][C13_Step]_vars
\* two opens succeeded, the first position is closed, and a call without price data
\* would return -1
C13_Witness ==
    /\ ctx_pc = "live"
    /\ ctx_next_id = 3
    /\ \E k \in DOMAIN ctx_closed_positions : ctx_closed_positions[k].id = 1
    /\ \E k \in DOMAIN ctx_positions : ctx_positions[k].id = 2
    /\ \E contract \in CtxContracts, args \in OpenArgs : Unresolved(contract, args)

\* the ids of the open positions
OpenIds == {ctx_positions[k].id : k \in DOMAIN ctx_positions}
\* C36: close_position on an id that is unknown or already closed returns False and
\* changes nothing: the realized P&L, the closed list and the closed position's exit
\* price, reason and cost stay, so the P&L of a position is realized at most once.
C36_CloseOfClosedChangesNothing ==
    ctx_pc = "live" =>
        /\ \A j, k \in DOMAIN ctx_closed_positions :
              ctx_closed_positions[j].id = ctx_closed_positions[k].id => j = k
        /\ \A k \in DOMAIN ctx_closed_positions : ctx_closed_positions[k].id \notin OpenIds
        /\ \A position_id \in (1..(MaxPositions + 1)) \ OpenIds,
              price \in {NoneVal, Paise(70)}, reason \in {"manual", "sl"},
              at_time \in {NoTime, [h |-> 9, m |-> 21]} :
              LET st == ClosePosition(ctx_in, CtxLists, position_id, price, reason, at_time)
              IN  /\ st.ret = FALSE
                  /\ st.positions = ctx_positions
                  /\ st.closed_positions = ctx_closed_positions
                  /\ SumGross(st.closed_positions) = get_realized_pnl
\* position 1 is closed with a profit or loss, position 2 is open and id 3 was never
\* given
C36_Witness ==
    /\ ctx_pc = "live"
    /\ ctx_next_id = 3
    /\ \E k \in DOMAIN ctx_closed_positions :
        /\ ctx_closed_positions[k].id = 1
        /\ ctx_closed_positions[k].gross_pnl # 0
        /\ CostTotal(ctx_closed_positions[k].cost) > 0
    /\ OpenIds = {2}

C37_Step ==
    (ctx_pc = "live" /\ ctx_pc' = "live") =>
        \* open_position took an id
        /\ ctx_next_id' = ctx_next_id + 1 =>
              /\ ctx_positions'[Len(ctx_positions')].current_price
                    = ctx_positions'[Len(ctx_positions')].entry_price
              /\ get_total_pnl' = get_total_pnl
        \* one position was closed, at its mark
        /\ \A k \in DOMAIN ctx_positions :
              (/\ Len(ctx_closed_positions') = Len(ctx_closed_positions) + 1
               /\ ctx_closed_positions'[Len(ctx_closed_positions')].id = ctx_positions[k].id
               /\ ctx_closed_positions'[Len(ctx_closed_positions')].exit_price
                     = ctx_positions[k].current_price) =>
                  /\ get_realized_pnl' - get_realized_pnl = unrealized_pnl(ctx_positions[k])
                  /\ get_unrealized_pnl - get_unrealized_pnl'
                        = unrealized_pnl(ctx_positions[k])
                  /\ get_total_pnl' = get_total_pnl
\* C37: open_position, and close_position at the current mark, leave get_total_pnl()
\* unchanged: a new position starts with its mark equal to its entry price, and closing
\* at the mark moves the position's unrealized amount into realized.
C37_OpenAndCloseAtMarkKeepTotal == [][C37_Step]_vars
\* a position marked at 130 was closed at its mark beside an open position
C37_Witness ==
    /\ ctx_pc = "live"
    /\ ctx_positions # <<>>
    /\ \E k \in DOMAIN ctx_closed_positions :
        /\ ctx_closed_positions[k].exit_price = Paise(130)
        /\ ctx_closed_positions[k].entry_price # Paise(130)
        /\ ctx_closed_positions[k].exit_reason = "manual"

\* ----------------------------------------------------------- claims, SpecExec
ExecDate == Calendar[exec_current]
ExecTradesOn(d) == {k \in DOMAIN exec_trades : exec_trades[k].trade_date = d}
C12_Folded ==
    \* while the strategy procedure runs, and until the finalization, nothing of the day
    \* is in the result
    /\ exec_pc \in {"strategy", "collect"} => ctx_pc = "live" /\ ExecTradesOn(ExecDate) = {}
    \* after the fold the day has one trade for each id its context gave
    /\ ctx_pc = "collected" =>
        /\ exec_pc \in {"loop", "done"}
        /\ Cardinality(ExecTradesOn(ctx_in.trade_date)) = ctx_next_id - 1
        /\ ctx_positions = <<>>
C12_Step ==
    \* the finalization is the step after the strategy procedure returned or raised
    /\ exec_pc' = "collect" => exec_pc = "strategy"
    /\ exec_pc = "strategy" => exec_pc' \in {"strategy", "collect"} /\ exec_current' = exec_current
    /\ (ctx_pc = "live" /\ ctx_pc' = "collected") => exec_pc = "collect"
    \* it runs once, and folds one trade for each position opened that day
    /\ exec_pc = "collect" =>
        /\ ctx_pc = "live" /\ ctx_pc' = "collected"
        /\ exec_pc' = "loop"
        /\ exec_current' = exec_current + 1
        /\ Len(exec_trades') = Len(exec_trades) + (ctx_next_id - 1)
        /\ SubSeq(exec_trades', 1, Len(exec_trades)) = exec_trades
        /\ \A k \in (Len(exec_trades) + 1)..Len(exec_trades') :
            exec_trades'[k].trade_date = ExecDate
    /\ exec_trades' # exec_trades => exec_pc = "collect"
\* C12: for every evaluated day of execute the end-of-day finalization runs exactly
\* once, after the strategy procedure returned or raised and before the day's trades
\* are folded into the result, so each position opened that day gives exactly one
\* trade record of the run.
C12_FinalizationOncePerDay == [](C12_Folded) /\ [][C12_Step]_vars
\* a finished run over two evaluated days: a trade the strategy closed, then a trade
\* of the finalization
C12_Witness ==
    /\ exec_pc = "done"
    /\ Len(exec_trades) = 2
    /\ exec_trades[1].exit_reason = "manual"
    /\ exec_trades[2].exit_reason = "time_exit"
    /\ exec_trades[1].trade_date < exec_trades[2].trade_date

ExecErrorsOn(d) == {k \in DOMAIN exec_errors : exec_errors[k] = d}
C15_OneErrorPerDay ==
    /\ \A k \in DOMAIN exec_errors : Cardinality(ExecErrorsOn(exec_errors[k])) = 1
    \* the day of an error is finalized and folded like any other
    /\ (ctx_pc = "collected" /\ ExecErrorsOn(ctx_in.trade_date) # {}) =>
        Cardinality(ExecTradesOn(ctx_in.trade_date)) = ctx_next_id - 1
C15_Step ==
    \* the error of a day is caught: one entry with the date, the positions stay for the
    \* finalization
    /\ exec_errors' # exec_errors =>
        /\ exec_pc = "strategy"
        /\ exec_errors' = Append(exec_errors, ExecDate)
        /\ exec_pc' = "collect"
        /\ <<ctx_positions, ctx_closed_positions, ctx_next_id>>'
            = <<ctx_positions, ctx_closed_positions, ctx_next_id>>
    \* the run is never left from inside a day
    /\ exec_pc' = "error" => exec_pc = "start"
    \* and the day after the finalization is the next one of the range
    /\ (exec_pc = "collect" /\ ExecErrorsOn(ExecDate) # {}) =>
        /\ exec_pc' = "loop"
        /\ exec_current' = exec_current + 1
        /\ Len(exec_trades') = Len(exec_trades) + (ctx_next_id - 1)
\* C15: when the strategy procedure raises on a day, execute catches the error, appends
\* exactly one entry tagged with the date to execution_errors, still finalizes and
\* folds the positions opened before the error, and goes on with every later day.
C15_ErrorIsolatedPerDay == [](C15_OneErrorPerDay) /\ [][C15_Step]_vars
\* a finished run whose first day raised after opening a position: the trade of that
\* day is in the result, and so is a trade of the later day
C15_Witness ==
    /\ exec_pc = "done"
    /\ Len(exec_errors) = 1
    /\ \E j, k \in DOMAIN exec_trades :
        /\ exec_trades[j].trade_date = exec_errors[1]
        /\ exec_trades[j].exit_reason = "time_exit"
        /\ exec_trades[k].trade_date > exec_errors[1]

\* ---------------------------------------------------------- claims, SpecStrat
\* the trades of a side with the label
StratTradesOf(side, label) ==
    {k \in DOMAIN strat_trades :
        strat_trades[k].option_type = side /\ strat_trades[k].label = label}
C14_SecondLegs ==
    \A side \in Sides :
        LET leg == strat_leg[side]
        IN  \* a second leg exists only beside a first leg closed by its stop, and was
            \* entered at least 10% above the price of that stop exit
            /\ (leg.entry2 > 0 \/ leg.open2 \/ leg.reentry_done) =>
                /\ leg.reentry_done
                /\ leg.sl_hit /\ ~leg.open /\ leg.exit_reason = "sl_hit"
                /\ leg.sl_exit_price = leg.exit_price
                /\ leg.entry2 * 100 >= leg.exit_price * (100 + ReentryPct)
            \* and the day's trades hold at most one of them for the side
            /\ Cardinality(StratTradesOf(side, "leg 2 (re-entry)")) <= 1
            /\ \A k \in StratTradesOf(side, "leg 2 (re-entry)") :
                \E j \in StratTradesOf(side, "leg 1") :
                    /\ strat_trades[j].exit_reason = "sl_hit"
                    /\ strat_trades[k].entry_price * 100
                        >= strat_trades[j].exit_price * (100 + ReentryPct)
C14_Step ==
    \A side \in Sides :
        \* once the second leg of a side was opened, none is opened again
        strat_leg[side].reentry_done =>
            /\ strat_leg'[side].reentry_done
            /\ strat_leg'[side].entry2 = strat_leg[side].entry2
            /\ strat_leg'[side].entry_time2 = strat_leg[side].entry_time2
\* C14: in the straddle re-entry strategy a second leg on a side (CE or PE) is opened
\* only after the first leg of that side was closed by its stop, only at a price at
\* least 10% above the price of that stop exit, and at most once per side and day.
C14_ReentryGating == [](C14_SecondLegs) /\ [][C14_Step]_vars
\* a finished day with the CE first leg stopped and a CE re-entry leg, and no PE
\* re-entry
C14_Witness ==
    /\ strat_pc = "done"
    /\ StratTradesOf("CE", "leg 2 (re-entry)") # {}
    /\ StratTradesOf("PE", "leg 2 (re-entry)") = {}
    /\ strat_leg["PE"].sl_hit

\* the re-entry leg of a side is never entered before the stop exit of its first leg
ReentryNotBeforeStopExit ==
    \A side \in Sides :
        strat_leg[side].entry_time2 # NoneVal =>
            /\ strat_leg[side].exit_reason = "sl_hit"
            /\ strat_leg[side].entry_time2 >= strat_leg[side].exit_time
\* C40: a re-entry leg is never opened in the same minute as the stop exit of the first
\* leg on that side or earlier: its entry time is strictly later than the first leg's
\* stop-exit time, in the variables of the day and in the trades returned.
C40_ReentryAfterStopExit ==
    /\ \A side \in Sides :
          strat_leg[side].entry_time2 # NoneVal =>
              strat_leg[side].entry_time2 > strat_leg[side].exit_time
    /\ \A side \in Sides :
          \A k \in StratTradesOf(side, "leg 2 (re-entry)") :
              \A j \in StratTradesOf(side, "leg 1") :
                  strat_trades[k].entry_time > strat_trades[j].exit_time

\* ------------------------------------------------------------ claims, SpecGen
\* the code of the k-th request's response, as _call_gemini returns it
CodeOf(k) == CallGemini(gen_requests[k].text).code
\* the k-th attempt got a response that passes the validation
Passed(k) == gen_requests[k].status = 200 /\ Validates(CodeOf(k))
\* C16: generate_code issues at most max_retries generation requests, stops at the
\* first attempt that passes validation and returns that attempt, and every request
\* after the first carries the corrective guidance while the first does not.
C16_BoundedRetries ==
    /\ Len(gen_requests) <= gen_max_retries
    /\ \A k \in DOMAIN gen_requests :
        /\ gen_requests[k].attempt = k - 1
        /\ gen_requests[k].extra_instruction <=> k > 1
        \* no request follows an attempt that passed
        /\ k < Len(gen_requests) => ~Passed(k)
        /\ Passed(k) =>
            /\ gen_pc = "returned"
            /\ gen_ret = CallGemini(gen_requests[k].text)
\* returned at the second attempt, the first to pass
C16_Witness ==
    /\ gen_pc = "returned"
    /\ Len(gen_requests) = 2 /\ gen_max_retries = MaxRetries
    /\ Passed(2) /\ ~Passed(1)
    /\ gen_requests[2].extra_instruction /\ ~gen_requests[1].extra_instruction

\* C17: when every one of the max_retries attempts fails, generate_code does not
\* abort: it returns the code of the last attempt, and that code is invalid.
C17_ExhaustedReturnsLast ==
    (/\ gen_pc # "loop"
     /\ Len(gen_requests) = gen_max_retries
     /\ \A k \in DOMAIN gen_requests : ~Passed(k)) =>
        /\ gen_pc = "returned"
        /\ gen_ret.code = CodeOf(gen_max_retries)
        /\ ~Validates(gen_ret.code)

\* ------------------------------------------------------------ claims, SpecBox
\* C18: every module-import attempt in generated code is stripped or rejected before
\* it can take effect: no import statement of the submitted code, at top level or
\* inside the strategy procedure, ever binds a module during execute.
C18_NoImportBinds == box_st.modules = {}

\* C19: generated code reaches only the whitelisted primitives, the injected
\* math/time/date/timedelta names and the context API, and no execution of the
\* strategy procedure does file, network, process or environment access.
C19_OnlyWhitelistReached ==
    /\ box_st.builtins \subseteq allowed_builtins
    /\ box_st.held \subseteq Injected \cup {"strategy", "ctx"}
    /\ box_st.effects = {}

\* --------------------------------------------------------- claims, SpecLoader
\* the i-th and the j-th call are load_day calls of the same date with no
\* clear_cache from the one to the other
RepeatedLoad(i, j) ==
    /\ i < j
    /\ ldr_log[i].op = "load_day" /\ ldr_log[j].op = "load_day"
    /\ ldr_log[i].args = ldr_log[j].args
    /\ \A k \in i..j : ldr_log[k].op # "clear_cache"
\* C20: two load_day(d) calls on the same loader with no clear_cache between them
\* return identical rows, and the second call reads no file.
C20_RepeatLoadIsCached ==
    \A i, j \in DOMAIN ldr_log :
        RepeatedLoad(i, j) =>
            /\ ldr_log[j].ret = ldr_log[i].ret
            /\ ldr_log[j].reads = <<>>
\* a day loaded twice, the first time from two files read, with rows returned
C20_Witness ==
    \E i, j \in DOMAIN ldr_log :
        /\ RepeatedLoad(i, j)
        /\ Len(ldr_log[i].reads) = 2
        /\ Len(ldr_log[j].ret) = 2

\* the i-th call is preload_range(from, to), the j-th a later load_day(d) with d in
\* [from, to], and no clear_cache from the one to the other
LoadAfterPreload(i, j) ==
    /\ i < j
    /\ ldr_log[i].op = "preload_range" /\ ldr_log[j].op = "load_day"
    /\ ldr_log[i].args[1] <= ldr_log[j].args[1] /\ ldr_log[j].args[1] <= ldr_log[i].args[2]
    /\ \A k \in i..j : ldr_log[k].op # "clear_cache"
\* the files of the index that cover the date
Covering(trade_date) ==
    {k \in DOMAIN ldr_file_index :
        ldr_file_index[k].from <= trade_date /\ trade_date <= ldr_file_index[k].to}
\* C21: after preload_range(from, to) has completed, load_day(d) for any date d in
\* [from, to] reads no file: every file that covers d is already in the file cache.
C21_NoReadAfterPreload ==
    \A i, j \in DOMAIN ldr_log :
        LoadAfterPreload(i, j) =>
            /\ ldr_log[j].reads = <<>>
            \* as the load_day call returns
            /\ j = Len(ldr_log) =>
                \A k \in Covering(ldr_log[j].args[1]) :
                    HasKey(ldr_file_cache, ldr_file_index[k].name)
\* preload_range read two files, and a later load_day of a date both cover returned
\* rows
C21_Witness ==
    \E i, j \in DOMAIN ldr_log :
        /\ LoadAfterPreload(i, j)
        /\ Len(ldr_log[i].reads) = 2
        /\ Cardinality(Covering(ldr_log[j].args[1])) = 2
        /\ ldr_log[j].ret # <<>>

\* the first file of the index that covers the date
FirstCovering(trade_date) == ldr_file_index[FirstIndex(Covering(trade_date))]
\* C23: after clear_cache() the loader holds no loaded file and no day slice, so the
\* next load_day(d) reads the covering file again.
C23_ClearReleasesAll ==
    \A i \in DOMAIN ldr_log :
        ldr_log[i].op = "clear_cache" =>
            /\ i = Len(ldr_log) => ldr_file_cache = <<>> /\ ldr_day_cache = <<>>
            /\ (i < Len(ldr_log) /\ ldr_log[i + 1].op = "load_day"
                /\ Covering(ldr_log[i + 1].args[1]) # {}) =>
                    /\ ldr_log[i + 1].reads # <<>>
                    /\ ldr_log[i + 1].reads[1] = FirstCovering(ldr_log[i + 1].args[1]).name
\* a day loaded, the cache cleared, and the day loaded again from the file
C23_Witness ==
    /\ Len(ldr_log) = 3
    /\ ldr_log[1].op = "load_day" /\ ldr_log[1].ret # <<>>
    /\ ldr_log[2].op = "clear_cache"
    /\ ldr_log[3].op = "load_day" /\ ldr_log[3].args = ldr_log[1].args
    /\ ldr_log[3].reads = ldr_log[1].reads /\ ldr_log[3].ret = ldr_log[1].ret

\* -------------------------------------------------------- claims, SpecWorkers
\* the i-th touch was made while loading a date of the preloaded range
InRange(i) ==
    /\ wk_range # <<>>
    /\ wk_range[1] <= wk_writes[i].trade_date /\ wk_writes[i].trade_date <= wk_range[2]
\* no file is read or stored while a date of the preloaded range is loaded
NoFirstTouchInRange ==
    \A i \in DOMAIN wk_writes : InRange(i) => wk_writes[i].kind = "day"
\* C22: after preload_range has completed, with load_day calls of several workers
\* interleaved, each cache entry (a loaded file or a day slice) is written at most
\* once, and no worker does a first-touch load of a file.
C22_WriteOnceReadMany ==
    /\ NoFirstTouchInRange
    /\ \A i, j \in DOMAIN wk_writes :
        (i < j /\ InRange(i) /\ InRange(j)) => wk_writes[i].key # wk_writes[j].key

\* --------------------------------------------------------- claims, SpecReplay
\* C24: two runs of OptionsBacktester.run with the same archive, config and date
\* range produce identical trade lists, skip logs and metrics, whatever the shared
\* cache held before each run.
C24_ReplayDeterministic ==
    \A i, j \in DOMAIN rp_results :
        /\ rp_results[i].trades = rp_results[j].trades
        /\ rp_results[i].skipped_days = rp_results[j].skipped_days
        /\ rp_results[i].metrics = rp_results[j].metrics
\* a run on the cold cache and a run on a cache that was not, both with a trade and
\* a skip record
C24_Witness ==
    /\ Len(rp_results) = 2
    /\ rp_results[1].cold /\ ~rp_results[2].cold
    /\ rp_results[2].trades # <<>> /\ rp_results[2].skipped_days # <<>>

\* the config invariant: at least one leg, every action BUY or SELL, every strike
\* label beginning with ATM
ConfigInvariant(config) ==
    /\ config.legs # <<>>
    /\ \A i \in DOMAIN config.legs :
        /\ config.legs[i].action \in {"BUY", "SELL"}
        /\ StartsWithATM(config.legs[i].strike)
\* C32: run rejects with an error, before loading any data or evaluating any day,
\* every config that violates the config invariant.
C32_InvalidConfigRejected ==
    ~ConfigInvariant(rp_cfg) =>
        \A i \in DOMAIN rp_results :
            /\ rp_results[i].raised = "ValueError"
            /\ rp_results[i].reads = <<>> /\ ~rp_results[i].loader_used
            /\ rp_results[i].trades = <<>> /\ rp_results[i].skipped_days = <<>>
\* a config with a strike label that is not ATM was rejected on a cold loader of an
\* archive with files
C32_Witness ==
    /\ \E i \in DOMAIN rp_cfg.legs : ~StartsWithATM(rp_cfg.legs[i].strike)
    /\ rp_results # <<>>
    /\ rp_results[1].raised = "ValueError" /\ rp_results[1].cold
    /\ ~ldr_index_built

\* ----------------------------------------------------------- claims, SpecDays
\* the records of a list that carry the date of day d
OnDay(records, d) ==
    SelectSeq(records, LAMBDA r : (IF "trade_date" \in DOMAIN r THEN r.trade_date ELSE r.date)
                                  = Calendar[d])
\* day d evaluated alone: the loop over the range d..d
Alone(d) == DayOf(dy_job, TopLevel(dy_job.procedure), dy_data[d], d)
\* the weekdays the loop has been through
Evaluated == {d \in dy_range[1]..(dy_current - 1) : Weekday(d) < 5}
SameAsAlone(d) ==
    /\ OnDay(dy_out.trades, d) = Alone(d).trades
    /\ OnDay(dy_out.skipped_days, d) = Alone(d).skipped_days
\* the fixed-leg loop keeps each day to itself
LegsDaysIndependent ==
    dy_job.kind = "legs" => \A d \in Evaluated : SameAsAlone(d)
\* C25: the trades and skip records of a day d are the same whether d is evaluated
\* alone or inside a longer range, in the fixed-leg day loop and in the
\* strategy-procedure day loop alike.
C25_DaysIndependent ==
    \A d \in Evaluated : SameAsAlone(d)

\* gross P&L of a trade from its prices: (entry - exit) x quantity for SELL,
\* (exit - entry) x quantity for BUY
GrossOf(t) ==
    IF t.action = "SELL" THEN (t.entry_price - t.exit_price) * t.quantity * MoneyPerPaisa
    ELSE (t.exit_price - t.entry_price) * t.quantity * MoneyPerPaisa
\* the breakdown of the cost model for the entry/exit pair of a trade on its date
CostOf(t) ==
    calculate(RunCostConfig, t.trade_date, t.action, t.entry_price, t.exit_price,
              t.quantity, 1)
\* C30: every non-skipped trade of execute_leg and every position closed through
\* close_position has net P&L = gross P&L - cost total, the gross from its entry and
\* exit price and quantity by its side, the cost the breakdown of the cost model for
\* that pair on the trade date.
C30_NetIsGrossLessCost ==
    \A k \in DOMAIN dy_out.trades :
        LET t == dy_out.trades[k]
        IN  /\ t.gross_pnl = GrossOf(t)
            /\ t.has_cost /\ t.cost = CostOf(t)
            /\ t.net_pnl = t.gross_pnl - CostTotal(t.cost)
\* the legs of a config gave a SELL and a BUY trade with different entry and exit prices
C30_Witness ==
    /\ dy_job.kind = "legs"
    /\ \E j, k \in DOMAIN dy_out.trades :
        /\ dy_out.trades[j].action = "SELL" /\ dy_out.trades[k].action = "BUY"
        /\ dy_out.trades[j].gross_pnl # 0 /\ dy_out.trades[k].gross_pnl # 0
        /\ CostTotal(dy_out.trades[j].cost) > 0
\* a position opened by a procedure was closed, with costs
ClosedByContext ==
    /\ dy_job.kind = "procedure"
    /\ \E k \in DOMAIN dy_out.trades :
        dy_out.trades[k].action = "BUY" /\ CostTotal(dy_out.trades[k].cost) > 0
\* the same of the positions a context has closed, at any price
ClosedNetIsGrossLessCost ==
    \A k \in DOMAIN ctx_closed_positions :
        LET pos == ctx_closed_positions[k]
        IN  /\ pos.gross_pnl = GrossOf(pos)
            /\ pos.has_cost
            /\ pos.cost = calculate(ctx_in.cost_config, ctx_in.trade_date, pos.action,
                                    pos.entry_price, pos.exit_price, pos.quantity, 1)
            /\ pos.net_pnl = pos.gross_pnl - CostTotal(pos.cost)

\* the DTE of day d is below dte_min or above dte_max, or the volatility reading of
\* the day is below vix_min or above vix_max
OutOfBounds(config, d) ==
    \/ config.dte_min # NoneVal /\ Dte(d) < config.dte_min
    \/ config.dte_max # NoneVal /\ Dte(d) > config.dte_max
    \/ /\ dy_data[d].vix # NoneVal
       /\ \/ config.vix_min # NoneVal /\ dy_data[d].vix < config.vix_min
          \/ config.vix_max # NoneVal /\ dy_data[d].vix > config.vix_max
\* every trade of run is of a weekday of the range
OnlyWeekdaysOfRange ==
    dy_job.kind = "legs" =>
        \A k \in DOMAIN dy_out.trades :
            \E d \in dy_range[1]..dy_range[2] :
                Weekday(d) < 5 /\ dy_out.trades[k].trade_date = Calendar[d]
\* a day outside the DTE bounds has no trades
DteFilteredDaysGiveNoTrades ==
    dy_job.kind = "legs" =>
        \A d \in Evaluated :
            DteFiltered(dy_job.config, Dte(d)) => OnDay(dy_out.trades, d) = <<>>
\* C31: run evaluates only weekdays of the range, and a day whose DTE is below dte_min
\* or above dte_max, or whose volatility reading is below vix_min or above vix_max,
\* produces no trades, for every value of the bounds.
C31_FilteredDaysGiveNoTrades ==
    dy_job.kind = "legs" =>
        /\ \A k \in DOMAIN dy_out.trades :
              \E d \in dy_range[1]..dy_range[2] :
                  Weekday(d) < 5 /\ dy_out.trades[k].trade_date = Calendar[d]
        /\ \A d \in Evaluated :
              OutOfBounds(dy_job.config, d) => OnDay(dy_out.trades, d) = <<>>

\* ----------------------------------------------------------- claims, SpecCost
\* the schedules in force on a date
InForce(trade_date) ==
    {i \in DOMAIN TAX_SCHEDULES : TAX_SCHEDULES[i].effective_from <= trade_date}
\* C26: get_tax_rates(date) returns the last schedule entry whose effective-from date
\* is at or before the date: 2024-09-30 selects the schedule with sell rate 0.0625%,
\* 2024-10-01 the one with sell and buy rate 0.1%.
C26_LastScheduleInForce ==
    "get_tax_rates" \in cm_called =>
        /\ InForce(cm_in.trade_date) # {} =>
              \E i \in InForce(cm_in.trade_date) :
                  /\ \A j \in InForce(cm_in.trade_date) : j <= i
                  /\ cm_rates = TAX_SCHEDULES[i]
        /\ cm_in.trade_date = 20240930 =>
              cm_rates.stt_sell_pct = 625 /\ cm_rates.stt_buy_pct = 0
        /\ cm_in.trade_date = 20241001 =>
              cm_rates.stt_sell_pct = 1000 /\ cm_rates.stt_buy_pct = 1000
\* the rates of 2024-10-01 were asked for
C26_Witness ==
    /\ "get_tax_rates" \in cm_called
    /\ cm_in.trade_date = 20241001
    /\ cm_rates = TAX_SCHEDULES[2]

\* C27: calculate called with zero quantity or with zero premiums returns a breakdown
\* in which every component and the total are zero.
C27_ZeroInputZeroCost ==
    ( /\ "calculate" \in cm_called
      /\ cm_in.quantity = 0 \/ (cm_in.premium = 0 /\ cm_in.exit_premium = 0) )
    => cm_cost = ZeroCost /\ CostTotal(cm_cost) = 0

C29_SlippageAndBrokerage ==
    "calculate" \in cm_called =>
        /\ cm_cost.slippage = cm_in.config.slippage_pts * cm_in.quantity * cm_in.num_legs
                              * 2 * MoneyPerPaisa
        /\ cm_cost.brokerage = cm_in.config.brokerage_per_order * cm_in.num_legs * 2
        /\ ( /\ cm_in.quantity = 25 /\ cm_in.num_legs = 1
             /\ cm_in.config.slippage_pts = 50
             /\ cm_in.config.brokerage_per_order = 20 * Pct * MoneyPerPaisa )
           => /\ cm_cost.slippage = 25 * Pct * MoneyPerPaisa
              /\ cm_cost.brokerage = 40 * Pct * MoneyPerPaisa
        /\ ~cm_in.config.use_taxes =>
              /\ cm_cost.stt = 0 /\ cm_cost.exchange_charges = 0 /\ cm_cost.sebi_fee = 0
              /\ cm_cost.gst = 0 /\ cm_cost.stamp_duty = 0
              /\ CostTotal(cm_cost) = cm_cost.slippage + cm_cost.brokerage
\* the sell leg of the example, costed without taxes
C29_Witness ==
    /\ "calculate" \in cm_called
    /\ ~cm_in.config.use_taxes
    /\ cm_in.action = "SELL" /\ cm_in.quantity = 25 /\ cm_in.num_legs = 1
    /\ cm_in.premium = 15000 /\ cm_in.exit_premium = 10000
    /\ cm_cost.slippage = 25 * Pct * MoneyPerPaisa
    /\ cm_cost.brokerage = 40 * Pct * MoneyPerPaisa

\* -------------------------------------------------------- claims, SpecMetrics
\* the trades the metrics of the result are computed on
Active == IF mt_class = "BacktestResult" THEN active_trades(mt_trades) ELSE mt_trades
\* C33: with zero losing trades profit_factor returns infinity without a division
\* error, also with no trades at all, and the export of either class serializes it as
\* the capped value 999.
C33_NoLossesGiveCappedValue ==
    \A i \in DOMAIN mt_summary :
        /\ mt_summary[i].raised = "none"
        /\ (\A k \in DOMAIN Active : Active[k].net_pnl >= 0) =>
              /\ mt_summary[i].props.profit_factor.inf
              /\ mt_summary[i].summary # <<>>
              /\ mt_summary[i].summary[1].profit_factor = Capped
\* a result of two winning trades and a skipped record was exported with 999
C33_Witness ==
    /\ mt_summary # <<>>
    /\ mt_summary[1].summary[1].profit_factor = Capped
    /\ mt_class = "BacktestResult"
    /\ Len(mt_trades) = 3 /\ Len(Active) = 2
    /\ \A k \in DOMAIN Active : Active[k].net_pnl > 0

\* cumulative net P&L after the first k trades
Cumulative(trades, k) == SumNet(SubSeq(trades, 1, k))
\* the largest element of a non-empty set of integers
Largest(S) == CHOOSE x \in S : \A y \in S : y <= x
\* the running peak of the cumulative net P&L after k trades, the peak starting at 0
RunningPeak(trades, k) == Largest({0} \cup {Cumulative(trades, j) : j \in 1..k})
\* C34: max_drawdown is the largest value of running peak less current cumulative net
\* P&L over the active trades in execution order, the peak starting at 0; it is never
\* negative and it is 0 for an empty trade list.
C34_MaxDrawdownIsLargestDeficit ==
    \A i \in DOMAIN mt_summary :
        LET dd == mt_summary[i].props.max_drawdown
        IN  /\ dd >= 0
            /\ Active = <<>> => dd = 0
            /\ Active # <<>> =>
                  dd = Largest({RunningPeak(Active, k) - Cumulative(Active, k) :
                                   k \in DOMAIN Active})
            /\ mt_summary[i].summary # <<>>
            /\ mt_summary[i].summary[1].max_drawdown = Round2Money(dd)
\* a result that lost Rs 2 first, then won Rs 3 and Rs 1, with a drawdown of Rs 2
C34_Witness ==
    /\ mt_summary # <<>>
    /\ mt_class = "BacktestResult"
    /\ Len(Active) = 3
    /\ Active[1].net_pnl < 0 /\ Active[2].net_pnl > 0 /\ Active[3].net_pnl > 0
    /\ mt_summary[1].props.max_drawdown = 20000

\* ---------------------------------------------------------- claims, SpecSweep
\* the config a backtest of the value is run on: the base config as it was, with the
\* parameter set to the value
ConfigOfValue(param_name, value) ==
    LET base == sw_in.config
    IN  IF param_name \in {"sl_pct", "exit_time", "lot_size"}
        THEN [base EXCEPT ![param_name] = value]
        ELSE IF param_name = "leg_1_strike" THEN [base EXCEPT !.legs[1].strike = value]
        ELSE IF param_name = "leg_2_sl_pct" /\ Len(base.legs) >= 2
        THEN [base EXCEPT !.legs[2].sl_pct = value]
        ELSE base
\* results[i] is the backtest of values[i]
ResultsAreBacktestsOfValues ==
    /\ Len(sw_results) <= Len(sw_values)
    /\ sw_pc = "returned" => Len(sw_results) = Len(sw_values)
    /\ \A i \in DOMAIN sw_results :
        LET expected == run(ConfigOfValue(sw_param, sw_values[i]))
        IN  /\ sw_results[i].param_value = sw_values[i]
            /\ sw_results[i].result.trades = expected.trades
            /\ sw_results[i].result.skipped_days = expected.skipped_days
\* the name, the legs and the scalar fields of the base config are as they were
SweepLeavesFieldsOfBase == sw_config = sw_in.config
\* C35: after the sweep the base config (its name, legs, scalar fields and params) is
\* unchanged for every parameter name, and results[i] is the backtest of values[i].
C35_SweepLeavesBaseConfig ==
    /\ sw_config = sw_in.config
    /\ sw_heap[sw_config.params] = sw_in.heap[sw_in.config.params]
    /\ \A i \in DOMAIN sw_results :
        LET expected == run(ConfigOfValue(sw_param, sw_values[i]))
        IN  /\ sw_results[i].param_value = sw_values[i]
            /\ sw_results[i].result.trades = expected.trades

====
